---- MODULE Spec2Model ----
(***************************************************************************)
(* Model of the DJ controller bridge (mismo.dj_midi):                      *)
(*   - ActionRouter  (src/src/mapping/ActionRouter.js, lines 1-255)        *)
(*     with the AudioEngineClient.send it calls (src/unnamed/part_005)     *)
(*   - MIDIManager 14-bit CC pairing (src/src/managers/HIDManager.js,      *)
(*     second class of the file, lines 498-893)                            *)
(***************************************************************************)
EXTENDS Integers, Sequences, FiniteSets, TLC

(***************************************************************************)
(* Bounds of the model.                                                    *)
(***************************************************************************)
\* Number of valid route() calls explored.
MaxActions == 3
\* this.maxQueueSize (ActionRouter.js:20 sets 1000); scaled down so that a
\* queue can be filled within MaxActions route() calls.
maxQueueSize == 2

Priorities == {"critical", "high", "normal"}
\* All targets go through the one audio client (ActionRouter.js:12-13); the
\* target is only counted and copied into the message.
Targets    == {"audio"}
\* A field that is absent (undefined) in the argument of route().
Missing == "undefined"
\* route(null / undefined)
NoAction == [priority |-> Missing, target |-> Missing, isNull |-> TRUE]
\* The arguments route() is called with: every well-formed action, no action,
\* an action without target and an action without priority.
RouteInputs ==
    [priority : Priorities, target : Targets, isNull : {FALSE}] \cup
    {NoAction,
     [priority |-> "high", target |-> Missing, isNull |-> FALSE],
     [priority |-> Missing, target |-> "audio", isNull |-> FALSE]}

VARIABLES
    \* ---- ActionRouter ----
    highQueue,      \* this.highQueue   : sequence of actions
    normalQueue,    \* this.normalQueue : sequence of actions
    isProcessing,   \* this.isProcessing
    stats,          \* this.stats
    loopPc,         \* position of the setImmediate dispatch loop:
                    \*   "scheduled" - callback queued by setImmediate
                    \*   "awaiting"  - inside _processQueues, at `await _sendAction`
    \* ---- AudioEngineClient ----
    connected,      \* this.connected
    \* ---- observations (not program state) ----
    lastRoute,      \* the last route() call: its argument and what it returned
    routed,         \* routed[id] = the id-th valid action given to route()
    sendLog,        \* calls of audioClient.send, in order
    lastSend,       \* outcome of the last audioClient.send ("none" before any)
    lateRoute,      \* TRUE once a valid route() call came after a send of the loop
    paused          \* TRUE from a call of pause() to the next call of resume()

routerVars == <<highQueue, normalQueue, isProcessing, stats, loopPc, connected,
                lastRoute, routed, sendLog, lastSend, lateRoute,
                   paused>>

VARIABLES
    \* ---- MIDIManager ----
    highResCCState, \* this.highResCCState: deviceId -> (key -> pending MSB)
    now,            \* Date.now(), in ms since the start
    \* ---- observations (not program state) ----
    ccLog           \* the 'cc' messages handled so far, each with the 'input'
                    \* events its handler emitted

midiVars == <<highResCCState, now, ccLog>>

VARIABLES
    \* ---- HIDManager ----
    devices,          \* this.devices: deviceId -> [state, previousState]
    pollingIntervals, \* this.pollingIntervals: the deviceIds with a timer
    knownDevices,     \* this.knownDevices: the paths that are open
    \* ---- observations (not program state) ----
    hidLog,           \* hidLog[d]: the successful polls of device d since it
                      \* was connected, each with the report read, the state
                      \* parsed from it and the 'input' events emitted
    readFailed        \* the devices with a poll whose read threw an error
                      \* other than no-data or timeout, since they connected

hidVars == <<devices, pollingIntervals, knownDevices, hidLog, readFailed>>

VARIABLES
    \* ---- HIDTranslator ----
    modifierState,    \* this.modifierState: control name -> BOOLEAN
    \* ---- observations (not program state) ----
    translated        \* the last translate() call: the translator, the event
                      \* (as <<event>>) and what it returned (<<>> for null,
                      \* <<action>> for an Action)

translatorVars == <<modifierState, translated>>

VARIABLES
    \* ---- ActionMapper ----
    translators,      \* this.translators: deviceId -> translator
    deviceMappings,   \* this.deviceMappings: the keys, in insertion order
    configDir,        \* the files <name>.json now in config/devices
    \* ---- observations (not program state) ----
    lastCall          \* the last call of the mapper and how it ended

mapperVars == <<translators, deviceMappings, configDir, lastCall>>

VARIABLES
    \* ---- ControllerServer: the input handlers ----
    running,          \* the 'input' listeners are attached
    handlers,         \* handlers[i]: the call of _handleMIDIInput or
                      \* _handleHIDInput for the i-th input event, with the
                      \* place it has reached
    microtasks,       \* the handlers whose awaited promise is resolved, in
                      \* the order of the microtask queue
    draining,         \* the microtask queue is being run
    connectedDevices, \* the connected devices: device id -> the mapping
                      \* connectDevice was called with
    \* ---- observations (not program state) ----
    routeCalls,       \* the input events router.route() was called for, in
                      \* the order of the calls
    instances         \* device id -> the handler whose getTranslator call
                      \* built the translator object the mapper holds

serverVars ==
    <<running, handlers, microtasks, draining, connectedDevices,
      routeCalls, instances>>

VARIABLES
    \* ---- AudioEngineClient / WebUIClient ----
    ws,               \* this.ws: "null", or the state of the socket
    clientConnected,  \* this.connected
    reconnectAttempts,\* this.reconnectAttempts
    reconnectTimer,   \* this.reconnectTimer: 0 for null, or the timer's id
    timers,           \* the reconnect timers set and neither run nor cleared
    detached,         \* a socket closed by disconnect() has yet to emit
                      \* 'close'
    crashed,          \* an exception left a callback uncaught
    \* ---- observations (not program state) ----
    disconnectCalled, \* disconnect() has been called and connect() has not
                      \* been called by the server since
    connects,         \* the number of connect() calls so far
    failures          \* the number of failures and closes so far

clientVars == <<ws, clientConnected, reconnectAttempts, reconnectTimer, timers,
                detached, crashed, disconnectCalled, connects, failures>>

VARIABLES
    \* ---- FeedbackManager ----
    feedbackState,    \* this.state
    lastUpdate,       \* this.lastUpdate: throttle key -> timestamp
    feedbackNow,      \* the time, in ms since the start
    \* ---- observations (not program state) ----
    lastFeedback,     \* the last call: the throttle keys it asked
                      \* _shouldUpdate about and those that went on
    ledEmitted,       \* LED key -> the state of the last _updateLED call
                      \* for the key that passed the throttle
    feedbackCalls,    \* the number of calls so far
    feedbackTicks     \* the number of steps of the time so far

feedbackVars == <<feedbackState, lastUpdate, feedbackNow, lastFeedback,
                  ledEmitted,
                  feedbackCalls, feedbackTicks>>

\* The variables of the components other than the router / the MIDI manager /
\* the HID manager / the translators / the mapper / the server (whose
\* handlers work on the mapper) / the WebSocket client / the feedback
\* manager.
notRouterVars ==
    <<midiVars, hidVars, translatorVars, mapperVars, serverVars, clientVars,
      feedbackVars>>
notMidiVars ==
    <<routerVars, hidVars, translatorVars, mapperVars, serverVars, clientVars,
      feedbackVars>>
notHidVars ==
    <<routerVars, midiVars, translatorVars, mapperVars, serverVars, clientVars,
      feedbackVars>>
notTranslatorVars ==
    <<routerVars, midiVars, hidVars, mapperVars, serverVars, clientVars,
      feedbackVars>>
notMapperVars ==
    <<routerVars, midiVars, hidVars, translatorVars, serverVars, clientVars,
      feedbackVars>>
notServerVars ==
    <<routerVars, midiVars, hidVars, translatorVars, clientVars, feedbackVars>>
notClientVars ==
    <<routerVars, midiVars, hidVars, translatorVars, mapperVars, serverVars,
      feedbackVars>>
notFeedbackVars ==
    <<routerVars, midiVars, hidVars, translatorVars, mapperVars, serverVars,
      clientVars>>

vars == <<routerVars, midiVars, hidVars, translatorVars, mapperVars,
          serverVars, clientVars, feedbackVars>>

(***************************************************************************)
(* Helpers                                                                 *)
(***************************************************************************)
Ids(q) == {q[i].id : i \in DOMAIN q}

NextId == Len(routed) + 1

\* The dispatch loop has passed at least one action to the downstream send.
LoopHasSent == \E i \in DOMAIN sendLog : sendLog[i].via = "loop"

(***************************************************************************)
(* AudioEngineClient.send(data): false when not connected; otherwise       *)
(* ws.send, true unless it throws.  `threw` is the outcome of ws.send.     *)
(***************************************************************************)
\* ws.send is reached only when connected (part_005:103-106): otherwise
\* there is no outcome to choose.
WsSendOutcomes == IF connected THEN {FALSE, TRUE} ELSE {FALSE}

ClientSend(threw) ==
    IF ~connected THEN "notConnected"
    ELSE IF threw THEN "threw"
    ELSE "ok"

(***************************************************************************)
(* ActionRouter._sendAction(action): builds the message and calls          *)
(* audioClient.send synchronously; an exception is caught and gives false. *)
(***************************************************************************)
SendEntry(action, via) ==
    [id |-> action.id, priority |-> action.priority, via |-> via]

InitStats ==
    [totalActions |-> 0,
     droppedActions |-> 0,
     actionsByPriority |-> [p \in Priorities |-> 0],
     actionsByTarget |-> [t \in Targets |-> 0]]

\* ActionRouter.js:53-55
CountAction(s, action) ==
    [s EXCEPT !.totalActions = @ + 1,
              !.actionsByPriority[action.priority] = @ + 1,
              !.actionsByTarget[action.target] = @ + 1]

RouterInit ==
    /\ highQueue = <<>>
    /\ normalQueue = <<>>
    /\ isProcessing = FALSE
    /\ stats = InitStats
    /\ loopPc = "scheduled"
    /\ connected = FALSE
    /\ lastRoute = [called |-> FALSE, input |-> NoAction, result |-> FALSE]
    /\ routed = <<>>
    /\ sendLog = <<>>
    /\ lastSend = "none"
    /\ lateRoute = FALSE
    /\ paused = FALSE

(***************************************************************************)
(* route(action)                                                           *)
(***************************************************************************)
\* Faulty variant: the target is not checked.
IsInvalidNoTargetCheck(input) == input.isNull \/ input.priority = Missing

\* !action || !action.target || !action.priority   (ActionRouter.js:48)
IsInvalid(input) ==
    input.isNull \/ input.target = Missing \/ input.priority = Missing

\* Faulty variant: the critical branch is never taken, the action is queued.
IsCriticalNever(action) == FALSE

\* action.priority === 'critical'   (ActionRouter.js:58)
IsCritical(action) == action.priority = "critical"

\* Faulty variant: off by one, `>` for `>=`.
IsFullOffByOne(queue) == Len(queue) > maxQueueSize

\* Overflow check of route() (ActionRouter.js:66)
IsFull(queue) == Len(queue) >= maxQueueSize

\* Faulty variant: the action is pushed whatever the length of the queue.
EnqueueAlways(queue, action) == Append(queue, action)

\* What route() does to the queue of the action's priority (ActionRouter.js:66-76)
Enqueue(queue, action) ==
    IF IsFull(queue) THEN queue ELSE Append(queue, action)

\* Overflow branch of route(): the drop counter (ActionRouter.js:72)
CountDrop(s, full) ==
    IF full THEN [s EXCEPT !.droppedActions = @ + 1] ELSE s

Route(input, threw) ==
    IF IsInvalid(input)
    THEN \* ActionRouter.js:48-51
         /\ threw = FALSE
         /\ lastRoute' = [called |-> TRUE, input |-> input, result |-> FALSE]
         /\ UNCHANGED <<highQueue, normalQueue, isProcessing, stats, loopPc,
                        connected, routed, sendLog, lastSend, lateRoute,
                   paused>>
         /\ UNCHANGED notRouterVars
    ELSE
    LET action == [id |-> NextId, priority |-> input.priority,
                   target |-> input.target]
        counted == CountAction(stats, action)
    IN
    /\ Len(routed) < MaxActions
    /\ IF IsCritical(action)
       THEN \* ActionRouter.js:58-60
            /\ sendLog' = Append(sendLog, SendEntry(action, "route"))
            /\ lastSend' = ClientSend(threw)
            /\ lastRoute' = [called |-> TRUE, input |-> input, result |-> ClientSend(threw) = "ok"]
            /\ stats' = counted
            /\ routed' = Append(routed, [priority |-> action.priority,
                                         target |-> action.target,
                                         queued |-> FALSE])
            /\ UNCHANGED <<highQueue, normalQueue>>
       ELSE \* ActionRouter.js:62-88
            LET queue == IF action.priority = "high" THEN highQueue
                         ELSE normalQueue
            IN
            /\ threw = FALSE
            /\ stats' = CountDrop(counted, IsFull(queue))
            /\ lastRoute' = [called |-> TRUE, input |-> input, result |-> ~IsFull(queue)]
            /\ routed' = Append(routed, [priority |-> action.priority,
                                         target |-> action.target,
                                         queued |-> ~IsFull(queue)])
            /\ IF action.priority = "high"
               THEN /\ highQueue' = Enqueue(highQueue, action)
                    /\ UNCHANGED normalQueue
               ELSE /\ normalQueue' = Enqueue(normalQueue, action)
                    /\ UNCHANGED highQueue
            /\ UNCHANGED <<sendLog, lastSend>>
    /\ lateRoute' = (lateRoute \/ LoopHasSent)
    /\ UNCHANGED <<isProcessing, loopPc, connected, paused>>
    /\ UNCHANGED notRouterVars

(***************************************************************************)
(* The dispatch loop: _startProcessing / _processQueues                    *)
(***************************************************************************)
\* Faulty variant: the normal queue is served first.
PickQueueNormalFirst ==
    IF Len(normalQueue) > 0 THEN "normal"
    ELSE IF Len(highQueue) > 0 THEN "high"
    ELSE "none"

\* Which queue a dispatch turn serves (ActionRouter.js:173-181).
PickQueue ==
    IF Len(highQueue) > 0 THEN "high"
    ELSE IF Len(normalQueue) > 0 THEN "normal"
    ELSE "none"

\* Faulty variant: pop() for shift(), the newest action is taken.
TakeFromTail(queue) ==
    [action |-> queue[Len(queue)], rest |-> SubSeq(queue, 1, Len(queue) - 1)]

\* Faulty variant: queue[0] for shift(), the action stays in the queue.
TakeFromPeek(queue) == [action |-> Head(queue), rest |-> queue]

\* Faulty variant: a second shift(), the next action is lost unsent.
TakeFromTwice(queue) ==
    [action |-> Head(queue),
     rest |-> IF Len(queue) >= 2 THEN Tail(Tail(queue)) ELSE Tail(queue)]

\* The action a turn takes out of a queue (Array.shift) and what is left.
TakeFrom(queue) == [action |-> Head(queue), rest |-> Tail(queue)]

\* setImmediate callback up to the first await: _processQueues from its
\* start to `await this._sendAction(action)` (the send itself is issued
\* synchronously inside that call).
ProcessQueues(threw) ==
    /\ loopPc = "scheduled"
    /\ UNCHANGED notRouterVars
    /\ IF isProcessing
       THEN \* ActionRouter.js:165-167: return; the callback re-schedules itself
            /\ threw = FALSE
            /\ UNCHANGED routerVars
       ELSE IF PickQueue = "high"
       THEN LET t == TakeFrom(highQueue) IN
            /\ isProcessing' = TRUE
            /\ highQueue' = t.rest
            /\ sendLog' = Append(sendLog, SendEntry(t.action, "loop"))
            /\ lastSend' = ClientSend(threw)
            /\ loopPc' = "awaiting"
            /\ UNCHANGED <<normalQueue, stats, lastRoute, connected, routed,
                           lateRoute,
                   paused>>
       ELSE IF PickQueue = "normal"
       THEN LET t == TakeFrom(normalQueue) IN
            /\ isProcessing' = TRUE
            /\ normalQueue' = t.rest
            /\ sendLog' = Append(sendLog, SendEntry(t.action, "loop"))
            /\ lastSend' = ClientSend(threw)
            /\ loopPc' = "awaiting"
            /\ UNCHANGED <<highQueue, stats, lastRoute, connected, routed,
                           lateRoute,
                   paused>>
       ELSE \* both queues empty: isProcessing set and reset in the same turn
            /\ threw = FALSE
            /\ UNCHANGED routerVars

\* The turn resumes after the await: finally { isProcessing = false }, then
\* _startProcessing() schedules the next turn (ActionRouter.js:184-186, 156).
ProcessQueuesFinally ==
    /\ UNCHANGED notRouterVars
    /\ loopPc = "awaiting"
    /\ isProcessing' = FALSE
    /\ loopPc' = "scheduled"
    /\ UNCHANGED <<highQueue, normalQueue, stats, lastRoute, connected, routed,
                   sendLog, lastSend, lateRoute,
                   paused>>

\* clearQueues() (ActionRouter.js:206-218)
ClearQueues ==
    /\ UNCHANGED notRouterVars
    /\ highQueue' = <<>>
    /\ normalQueue' = <<>>
    /\ UNCHANGED <<isProcessing, stats, loopPc, lastRoute, connected, routed,
                   sendLog, lastSend, lateRoute,
                   paused>>

\* getStats() (ActionRouter.js:193-201): what it returns in this state.
GetStats ==
    [totalActions |-> stats.totalActions,
     droppedActions |-> stats.droppedActions,
     actionsByPriority |-> stats.actionsByPriority,
     actionsByTarget |-> stats.actionsByTarget,
     queueSizes |-> [high |-> Len(highQueue), normal |-> Len(normalQueue)]]

\* pause() (ActionRouter.js:223-226)
Pause ==
    /\ UNCHANGED notRouterVars
    /\ isProcessing' = TRUE
    /\ paused' = TRUE
    /\ UNCHANGED <<highQueue, normalQueue, stats, loopPc, lastRoute, connected,
                   routed, sendLog, lastSend, lateRoute>>

\* resume() (ActionRouter.js:231-234)
Resume ==
    /\ UNCHANGED notRouterVars
    /\ isProcessing' = FALSE
    /\ paused' = FALSE
    /\ UNCHANGED <<highQueue, normalQueue, stats, loopPc, lastRoute, connected,
                   routed, sendLog, lastSend, lateRoute>>

(***************************************************************************)
(* AudioEngineClient connection state (part_005:41-45, 67-73)              *)
(***************************************************************************)
WsOpen ==
    /\ UNCHANGED notRouterVars
    /\ ~connected
    /\ connected' = TRUE
    /\ UNCHANGED <<highQueue, normalQueue, isProcessing, stats, loopPc,
                   lastRoute, routed, sendLog, lastSend, lateRoute,
                   paused>>

WsClose ==
    /\ UNCHANGED notRouterVars
    /\ connected
    /\ connected' = FALSE
    /\ UNCHANGED <<highQueue, normalQueue, isProcessing, stats, loopPc,
                   lastRoute, routed, sendLog, lastSend, lateRoute,
                   paused>>

RouterNext ==
    \/ \E input \in RouteInputs, threw \in WsSendOutcomes : Route(input, threw)
    \/ \E threw \in WsSendOutcomes : ProcessQueues(threw)
    \/ ProcessQueuesFinally
    \/ ClearQueues
    \/ Pause
    \/ Resume
    \/ WsOpen
    \/ WsClose

(***************************************************************************)
(* MIDIManager: the 'cc' input handler and the 14-bit CC pairing           *)
(* (src/src/managers/HIDManager.js:498-893)                                *)
(***************************************************************************)
\* this.highResCCTimeout (HIDManager.js:519), in ms
highResCCTimeout == 50
\* maxValue of a combined event (HIDManager.js:862)
MaxValue14 == 16383
\* Number of 'cc' messages explored.
MaxCC == 3
\* The clock advances in steps of TickStep ms, up to MaxNow.
TickStep == 25
MaxNow == 75

\* Where a message comes from: <<deviceId, channel>>.
CCSources == {<<"midi-A", 0>>, <<"midi-A", 1>>, <<"midi-B", 0>>}
\* Data bytes: the ends of 0..127.
CCValues == {0, 127}
\* The 'cc' messages explored, as <<deviceId, channel, controller, value>>:
\* the pair of controllers 0 (MSB) and 32 (its LSB) from every source with
\* every value, and from one source the other end of both ranges (31, 63)
\* and a controller outside them (64).
CCInputs ==
    {<<src[1], src[2], c, v>> : src \in CCSources, c \in {0, 32}, v \in CCValues}
    \cup {<<"midi-A", 0, 31, 127>>, <<"midi-A", 0, 63, 127>>, <<"midi-A", 0, 64, 127>>}

MidiInit ==
    /\ highResCCState = <<>>
    /\ now = 0
    /\ ccLog = <<>>

\* _normalizeMIDIMessage(deviceId, 'cc', msg)   (HIDManager.js:755-787)
NormalizeCC(deviceId, channel, controller, value) ==
    [deviceId |-> deviceId, type |-> "cc", channel |-> channel,
     timestamp |-> now, controller |-> controller, value |-> value]

\* `${channel}:${controller}`   (HIDManager.js:846, 872)
CCKey(channel, controller) == <<channel, controller>>

\* this.highResCCState.get(deviceId), created empty when absent
\* (HIDManager.js:833-837)
DeviceState(deviceId) ==
    IF deviceId \in DOMAIN highResCCState THEN highResCCState[deviceId]
    ELSE <<>>

\* controller >= 32 && controller < 64   (HIDManager.js:840)
IsLSB(controller) == controller >= 32 /\ controller < 64

\* controller < 32, tested when the controller is no LSB (HIDManager.js:870)
IsMSB(controller) == ~IsLSB(controller) /\ controller < 32

\* Faulty variant: the age of the pending MSB is not looked at.
HasRecentMSBNoWindow(deviceState, key) == key \in DOMAIN deviceState

\* msbData && (Date.now() - msbData.timestamp < this.highResCCTimeout)
\* (HIDManager.js:849)
HasRecentMSB(deviceState, key) ==
    /\ key \in DOMAIN deviceState
    /\ now - deviceState[key].timestamp < highResCCTimeout

\* Faulty variant: the MSB shifted by 8 bits instead of 7.
Combine14Shift8(msb, lsb) == (msb * 256) + lsb

\* (msbData.value * 128) + value   (HIDManager.js:851)
Combine14(msb, lsb) == (msb * 128) + lsb

\* The combined message (HIDManager.js:857-868); normalized is the quotient
\* combinedValue / 16383, kept as numerator and denominator.
CombinedCC(ccMessage, msbData) ==
    LET combinedValue == Combine14(msbData.value, ccMessage.value)
        msbController == ccMessage.controller - 32
    IN  [deviceId |-> ccMessage.deviceId, type |-> ccMessage.type,
         channel |-> ccMessage.channel, timestamp |-> ccMessage.timestamp,
         controller |-> msbController,
         value |-> combinedValue,
         value14bit |-> combinedValue,
         maxValue |-> MaxValue14,
         normalized |-> [num |-> combinedValue, den |-> 16383],
         highRes |-> TRUE,
         lsbController |-> msbController + 32,
         msb |-> msbData.value,
         lsb |-> ccMessage.value]

\* deviceState.delete(key)
Without(deviceState, key) ==
    [k \in DOMAIN deviceState \ {key} |-> deviceState[k]]

\* Faulty variant: an MSB that is already pending is kept, the new one is
\* not stored.
WithMSBKeepFirst(deviceState, key, ccMessage) ==
    [k \in DOMAIN deviceState \cup {key} |->
        IF k \in DOMAIN deviceState
        THEN deviceState[k]
        ELSE [value |-> ccMessage.value, timestamp |-> now,
              channel |-> ccMessage.channel]]

\* deviceState.set(key, {value, timestamp, channel})   (HIDManager.js:873-877)
WithMSB(deviceState, key, ccMessage) ==
    [k \in DOMAIN deviceState \cup {key} |->
        IF k = key
        THEN [value |-> ccMessage.value, timestamp |-> now,
              channel |-> ccMessage.channel]
        ELSE deviceState[k]]

\* Clean up of old entries: now - v.timestamp > timeout   (HIDManager.js:880-885)
Sweep(deviceState) ==
    LET keep == {k \in DOMAIN deviceState :
                    ~(now - deviceState[k].timestamp > highResCCTimeout)}
    IN  [k \in keep |-> deviceState[k]]

\* _handle14BitCC(deviceId, ccMessage)   (HIDManager.js:823-890):
\* the device state it leaves and what it returns.
Handle14BitCC(deviceId, ccMessage) ==
    LET deviceState == DeviceState(deviceId)
        controller == ccMessage.controller
    IN
    IF IsLSB(controller)
    THEN LET key == CCKey(ccMessage.channel, controller - 32) IN
         IF HasRecentMSB(deviceState, key)
         THEN [state |-> Without(deviceState, key),
               result |-> <<CombinedCC(ccMessage, deviceState[key])>>]
         ELSE [state |-> deviceState, result |-> <<>>]
    ELSE IF IsMSB(controller)
    THEN LET key == CCKey(ccMessage.channel, controller) IN
         [state |-> Sweep(WithMSB(deviceState, key, ccMessage)),
          result |-> <<>>]
    ELSE [state |-> deviceState, result |-> <<>>]

\* Faulty variant: only a combined message is emitted, a CC that
\* _handle14BitCC answers with null is held back.
EmitCCOnlyCombined(normalized, processed) == processed

\* What the 'cc' handler emits as 'input' (HIDManager.js:719-725)
EmitCC(normalized, processed) ==
    IF processed # <<>> THEN processed ELSE <<normalized>>

\* input.on('cc', ...)   (HIDManager.js:707-726); the handler runs within one
\* millisecond: every Date.now() of the call reads the same `now`.
OnCC(deviceId, channel, controller, value) ==
    LET normalized == NormalizeCC(deviceId, channel, controller, value)
        handled == Handle14BitCC(deviceId, normalized)
    IN
    /\ Len(ccLog) < MaxCC
    /\ highResCCState' =
          [d \in DOMAIN highResCCState \cup {deviceId} |->
              IF d = deviceId THEN handled.state ELSE highResCCState[d]]
    /\ ccLog' = Append(ccLog, [msg |-> normalized,
                               events |-> EmitCC(normalized, handled.result)])
    /\ UNCHANGED now
    /\ UNCHANGED notMidiVars

\* Time passes.
Tick ==
    /\ now + TickStep <= MaxNow
    /\ now' = now + TickStep
    /\ UNCHANGED <<highResCCState, ccLog>>
    /\ UNCHANGED notMidiVars

MidiNext ==
    \/ \E m \in CCInputs : OnCC(m[1], m[2], m[3], m[4])
    \/ Tick

(***************************************************************************)
(* HIDManager: polling, report parsing and state diffing                   *)
(* (src/src/managers/HIDManager.js:14-494)                                 *)
(***************************************************************************)
\* Number of successful polls explored, over all devices.
MaxPolls == 3

\* The HID devices; a device's path stands for its deviceId (the id is
\* computed from the path and the configured name, HIDManager.js:98).
HidDeviceIds == {"hid-A", "hid-B"}

\* JavaScript values that the differ handles: numbers, undefined and NaN.
JsNum(n) == [k |-> "number", n |-> n]
JsUndefined == [k |-> "undefined", n |-> 0]
JsNaN == [k |-> "NaN", n |-> 0]

JsBool(b) == [k |-> "boolean", n |-> IF b THEN 1 ELSE 0]
JsStr(str) == [k |-> "string", n |-> 0, s |-> str]
\* The quotient num / den of a division the code performs.
JsRatio(num, den) == [k |-> "ratio", n |-> num, d |-> den]

\* a !== b
StrictNotEqual(a, b) == a.k = "NaN" \/ b.k = "NaN" \/ a # b

\* a || 0 for a number or undefined
OrZero(a) == IF a.k = "number" /\ a.n # 0 THEN a ELSE JsNum(0)

\* a + b and a - b: NaN unless both are numbers
JsAdd(a, b) ==
    IF a.k = "number" /\ b.k = "number" THEN JsNum(a.n + b.n) ELSE JsNaN

JsSub(a, b) ==
    IF a.k = "number" /\ b.k = "number" THEN JsNum(a.n - b.n) ELSE JsNaN

\* config.parsing.controls of the connected devices: a button read from one
\* bit, a fader read from one byte and a signed 16-bit jog wheel read from
\* two bytes.  Byte indexes count from 0 as in the report buffer.
ParsingControls ==
    [play  |-> [type |-> "button", byte |-> 0, bit |-> 1],
     fader |-> [type |-> "absolute", byte |-> 1, resolution |-> 8],
     jog   |-> [type |-> "delta", bytes |-> <<2, 3>>, signed |-> TRUE,
                resolution |-> 16]]

\* Object.entries(parsingConfig.controls): the controls in declaration order.
ControlOrder == <<"play", "fader", "jog">>

\* The reports read: nothing pressed, the button pressed, another bit of the
\* button's byte set, the fader moved, the jog wheel turned forwards and
\* backwards, everything at once, and reports that end after the button's
\* byte and in the middle of the jog wheel's bytes.
HidReports ==
    {<<0, 0, 0, 0>>, <<2, 0, 0, 0>>, <<1, 0, 0, 0>>, <<0, 200, 0, 0>>,
     <<0, 0, 1, 0>>, <<0, 0, 255, 255>>, <<2, 200, 1, 0>>,
     <<2>>, <<0, 200, 5>>}

\* What device.readTimeout(10) gives: a report, nothing, an exception whose
\* message says 'could not read' or 'EAGAIN' (timeout), or an exception
\* with another message (throws).
HidReads ==
    [kind : {"data"}, data : HidReports] \cup
    {[kind |-> "none", data |-> <<>>], [kind |-> "timeout", data |-> <<>>],
     [kind |-> "throws", data |-> <<>>]}

HidInit ==
    /\ devices = <<>>
    /\ pollingIntervals = {}
    /\ knownDevices = {}
    /\ hidLog = [d \in HidDeviceIds |-> <<>>]
    /\ readFailed = {}

\* data[index]: undefined past the end of the report
ByteAt(data, index) ==
    IF index + 1 \in DOMAIN data THEN JsNum(data[index + 1]) ELSE JsUndefined

RECURSIVE Pow2(_)
Pow2(n) == IF n = 0 THEN 1 ELSE 2 * Pow2(n - 1)

\* (byte >> bit) & 0x01   (HIDManager.js:340)
ButtonBit(byte, bit) == (byte \div Pow2(bit)) % 2

\* The loop over controlConfig.bytes (HIDManager.js:343-353): rawValue |=
\* byte << (i * 8) for every byte that is present.  The bytes are below
\* 256 and sit at distinct positions, so the bitwise or is their sum.
RECURSIVE RawValueFrom(_, _, _)
RawValueFrom(data, bytes, i) ==
    IF i > Len(bytes) THEN 0
    ELSE LET byte == ByteAt(data, bytes[i])
         IN  (IF byte.k = "undefined" THEN 0
              ELSE byte.n * Pow2((i - 1) * 8))
             + RawValueFrom(data, bytes, i + 1)

\* Signed values (HIDManager.js:356-361)
ToSigned(rawValue, controlConfig) ==
    IF "signed" \in DOMAIN controlConfig /\ controlConfig.signed
       /\ "resolution" \in DOMAIN controlConfig
       /\ controlConfig.resolution # 0
       /\ 2 * rawValue >= Pow2(controlConfig.resolution)
    THEN rawValue - Pow2(controlConfig.resolution)
    ELSE rawValue

\* The `continue` of the outer loop (HIDManager.js:338): the control gets no
\* entry in the state.
ControlSkipped(data, controlConfig) ==
    /\ controlConfig.type = "button"
    /\ ByteAt(data, controlConfig.byte).k = "undefined"

\* The value the parser gives a control that is not skipped
\* (HIDManager.js:335-367).
ControlValue(data, controlConfig) ==
    IF controlConfig.type = "button"
    THEN LET byte == ByteAt(data, controlConfig.byte)
         IN  JsNum(ButtonBit(IF byte.k = "number" THEN byte.n ELSE 0,
                             controlConfig.bit))
    ELSE IF "bytes" \in DOMAIN controlConfig
    THEN JsNum(ToSigned(RawValueFrom(data, controlConfig.bytes, 1),
                        controlConfig))
    ELSE IF "byte" \in DOMAIN controlConfig
    THEN ByteAt(data, controlConfig.byte)
    ELSE JsUndefined

\* The parser made by _createParser(config) (HIDManager.js:324-385): the
\* state it returns for a report.  Each entry carries the value and the type;
\* its `config` is ParsingControls[name].
ParseReport(data) ==
    LET names == {n \in DOMAIN ParsingControls :
                     ~ControlSkipped(data, ParsingControls[n])}
    IN  [n \in names |->
            [value |-> ControlValue(data, ParsingControls[n]),
             type |-> ParsingControls[n].type]]

\* previousState[controlName]?.value and ?.absolutePosition
PreviousValue(previousState, name) ==
    IF name \in DOMAIN previousState THEN previousState[name].value
    ELSE JsUndefined

PreviousPosition(previousState, name) ==
    IF name \in DOMAIN previousState
       /\ "absolutePosition" \in DOMAIN previousState[name]
    THEN previousState[name].absolutePosition
    ELSE JsUndefined

\* The delta _computeDeltas builds for a control whose value changed
\* (HIDManager.js:404-421).
DeltaOf(previousState, name, controlState) ==
    LET previousValue == PreviousValue(previousState, name)
        currentValue == controlState.value
    IN  IF controlState.type = "delta"
        THEN [control |-> name, type |-> controlState.type,
              value |-> JsAdd(OrZero(PreviousPosition(previousState, name)),
                              currentValue),
              delta |-> currentValue]
        ELSE [control |-> name, type |-> controlState.type,
              value |-> currentValue,
              delta |-> JsSub(currentValue, OrZero(previousValue))]

\* previousValue !== currentValue   (HIDManager.js:403)
Changed(previousState, name, controlState) ==
    StrictNotEqual(PreviousValue(previousState, name), controlState.value)

\* The controls of a state in the order of Object.entries.
EntriesOf(state) == SelectSeq(ControlOrder, LAMBDA n : n \in DOMAIN state)

\* _computeDeltas(deviceId, currentState) (HIDManager.js:391-428), with
\* previousState = deviceInfo.previousState || {}: the deltas, in the order
\* of the controls.
ComputeDeltas(previousState, currentState) ==
    LET names == SelectSeq(EntriesOf(currentState),
                     LAMBDA n : Changed(previousState, n, currentState[n]))
    IN  [i \in DOMAIN names |->
            DeltaOf(previousState, names[i], currentState[names[i]])]

\* currentState as _computeDeltas leaves it: the absolute position is
\* written into the entry of a changed delta control (HIDManager.js:417).
WithPositions(previousState, currentState) ==
    [n \in DOMAIN currentState |->
        IF currentState[n].type = "delta"
           /\ Changed(previousState, n, currentState[n])
        THEN [value |-> currentState[n].value,
              type |-> currentState[n].type,
              absolutePosition |->
                  DeltaOf(previousState, n, currentState[n]).value]
        ELSE currentState[n]]

\* The 'input' event emitted for a delta (HIDManager.js:298-306); its
\* rawState is the state parsed in this poll.
InputEvent(deviceId, delta) ==
    [deviceId |-> deviceId, control |-> delta.control, type |-> delta.type,
     value |-> delta.value, delta |-> delta.delta]

\* connectDevice(path, config) (HIDManager.js:87-150); `opens` is whether
\* new HID.HID(path) succeeds.
ConnectDevice(deviceId, opens) ==
    /\ UNCHANGED notHidVars
    /\ IF deviceId \in knownDevices \/ ~opens
       THEN \* already connected (HIDManager.js:90-93), or the open throws
            UNCHANGED hidVars
       ELSE /\ devices' =
                  [d \in DOMAIN devices \cup {deviceId} |->
                      IF d = deviceId
                      THEN [state |-> <<>>, previousState |-> <<>>]
                      ELSE devices[d]]
            /\ knownDevices' = knownDevices \cup {deviceId}
            /\ pollingIntervals' = pollingIntervals \cup {deviceId}
            /\ hidLog' = [hidLog EXCEPT ![deviceId] = <<>>]
            /\ readFailed' = readFailed \ {deviceId}

\* disconnectDevice(deviceId) (HIDManager.js:156-186); `closes` is whether
\* device.close() returns without throwing.
DisconnectDevice(deviceId, closes) ==
    /\ UNCHANGED notHidVars
    /\ deviceId \in DOMAIN devices
    /\ pollingIntervals' = pollingIntervals \ {deviceId}
    /\ IF closes
       THEN /\ devices' = [d \in DOMAIN devices \ {deviceId} |-> devices[d]]
            /\ knownDevices' = knownDevices \ {deviceId}
            /\ hidLog' = [hidLog EXCEPT ![deviceId] = <<>>]
            /\ readFailed' = readFailed \ {deviceId}
       ELSE \* the catch at HIDManager.js:183: the device stays in the maps
            UNCHANGED <<devices, knownDevices, hidLog, readFailed>>

\* Successful polls logged so far.
PollCount ==
    LET RECURSIVE Sum(_)
        Sum(S) == IF S = {} THEN 0
                  ELSE LET d == CHOOSE x \in S : TRUE
                       IN  Len(hidLog[d]) + Sum(S \ {d})
    IN  Sum(HidDeviceIds)

\* One tick of the polling timer: _pollDevice(deviceId)
\* (HIDManager.js:243-245, 268-318).
PollDevice(deviceId, read) ==
    /\ UNCHANGED notHidVars
    /\ deviceId \in pollingIntervals
    /\ deviceId \in DOMAIN devices
    /\ IF read.kind # "data"
       THEN \* nothing to read (HIDManager.js:276-279), or the read threw:
            \* the catch logs the error unless its message is one of a
            \* timeout, and returns (HIDManager.js:310-317)
            /\ readFailed' = IF read.kind = "throws"
                             THEN readFailed \cup {deviceId} ELSE readFailed
            /\ UNCHANGED <<devices, pollingIntervals, knownDevices, hidLog>>
       ELSE LET deviceInfo == devices[deviceId]
                parsed == ParseReport(read.data)
                deltas == ComputeDeltas(deviceInfo.previousState, parsed)
                currentState == WithPositions(deviceInfo.previousState, parsed)
            IN  /\ PollCount < MaxPolls
                /\ devices' =
                      [devices EXCEPT ![deviceId] =
                          [state |-> currentState,
                           previousState |-> deviceInfo.state]]
                /\ hidLog' =
                      [hidLog EXCEPT ![deviceId] =
                          Append(@, [data |-> read.data,
                                     parsed |-> currentState,
                                     events |->
                                        [i \in DOMAIN deltas |->
                                            InputEvent(deviceId, deltas[i])]])]
                /\ UNCHANGED <<pollingIntervals, knownDevices, readFailed>>

HidNext ==
    \/ \E d \in HidDeviceIds, opens \in BOOLEAN : ConnectDevice(d, opens)
    \/ \E d \in HidDeviceIds, closes \in BOOLEAN : DisconnectDevice(d, closes)
    \/ \E d \in HidDeviceIds, read \in HidReads : PollDevice(d, read)


(***************************************************************************)
(* MIDITranslator (src/src/translators/MIDITranslator.js)                  *)
(***************************************************************************)
\* mapping.mappings of a MIDI device, every entry with the top-level target
\* and priority that validateDeviceMapping asks for: two entries with the
\* same note (the later one is the play button of the mapping reference), a
\* transport entry with a static value, a note entry that is not transport,
\* a fader, an encoder with a direction expression, entries with a value
\* expression, with a static value 0 next to an expression and with an
\* expression that throws, and an entry without a midi pattern.
MidiMappings ==
    [old_play |->
        [midi |-> [type |-> "noteon", channel |-> 0, note |-> 11],
         action |-> [type |-> "effect", command |-> "toggle"],
         target |-> "app", priority |-> "normal"],
     play_a |->
        [midi |-> [type |-> "noteon", channel |-> 0, note |-> 11],
         action |-> [type |-> "transport", command |-> "play", deck |-> "A"],
         target |-> "audio", priority |-> "high"],
     cue_b |->
        [midi |-> [type |-> "noteon", channel |-> 0, note |-> 12],
         action |-> [type |-> "transport", command |-> "cue", deck |-> "B",
                     value |-> JsNum(1)],
         target |-> "audio", priority |-> "high"],
     hotcue |->
        [midi |-> [type |-> "noteon", channel |-> 0, note |-> 13],
         action |-> [type |-> "hotcue", command |-> "trigger", deck |-> "A"],
         target |-> "audio", priority |-> "normal"],
     volume |->
        [midi |-> [type |-> "cc", channel |-> 0, controller |-> 7],
         action |-> [type |-> "mixer", command |-> "volume", deck |-> "A"],
         target |-> "audio", priority |-> "normal"],
     browse |->
        [midi |-> [type |-> "cc", channel |-> 0, controller |-> 22],
         action |-> [type |-> "library", command |-> "browse",
                     direction |-> "value > 64 ? 'down' : 'up'"],
         target |-> "ui", priority |-> "normal"],
     gain |->
        [midi |-> [type |-> "cc", channel |-> 0, controller |-> 8],
         action |-> [type |-> "mixer", command |-> "gain",
                     valueExpression |-> "value * 2"],
         target |-> "audio", priority |-> "critical"],
     fixed |->
        [midi |-> [type |-> "cc", channel |-> 0, controller |-> 9],
         action |-> [type |-> "effect", command |-> "reset",
                     value |-> JsNum(0), valueExpression |-> "value * 2"],
         target |-> "app", priority |-> "normal"],
     broken |->
        [midi |-> [type |-> "cc", channel |-> 0, controller |-> 10],
         action |-> [type |-> "effect", command |-> "level",
                     valueExpression |-> "missing.level"],
         target |-> "app", priority |-> "normal"],
     unbound |->
        [action |-> [type |-> "system", command |-> "noop"],
         target |-> "app", priority |-> "normal"]]

\* Object.entries(this.mapping.mappings): the keys in declaration order.
MidiMappingOrder ==
    <<"old_play", "play_a", "cue_b", "hotcue", "volume", "browse", "gain",
      "fixed", "broken", "unbound">>

\* The events given to translate(): note-on and note-off, plain CCs, the
\* combined 14-bit events of _handle14BitCC, and a pitch bend.
MidiEvents ==
    {[deviceId |-> "midi-A", type |-> t, channel |-> ch, timestamp |-> 0,
      note |-> n, velocity |-> v] :
        t \in {"noteon", "noteoff"}, ch \in {0, 1}, n \in {11, 12, 13, 14},
        v \in {0, 64, 127}}
    \cup
    {[deviceId |-> "midi-A", type |-> "cc", channel |-> ch, timestamp |-> 0,
      controller |-> c, value |-> v] :
        ch \in {0, 1}, c \in {7, 8, 9, 10, 22, 23}, v \in {0, 100, 127}}
    \cup
    {[deviceId |-> "midi-A", type |-> "cc", channel |-> 0, timestamp |-> 0,
      controller |-> c, value |-> v, value14bit |-> v, maxValue |-> 16383,
      normalized |-> [num |-> v, den |-> 16383], highRes |-> TRUE,
      lsbController |-> c + 32, msb |-> v \div 128, lsb |-> v % 128] :
        c \in {7, 9}, v \in {0, 8192, 16383}}
    \cup
    {[deviceId |-> "midi-A", type |-> "pitch", channel |-> 0, timestamp |-> 0,
      value |-> 8192]}

\* _createLookupKey(midiEvent) and _createLookupKeyFromConfig(midiConfig)
\* (MIDITranslator.js:121-147): the parts that are joined with ':'.
CreateLookupKey(m) ==
    IF "note" \in DOMAIN m THEN <<m.type, m.channel, "note", m.note>>
    ELSE IF "controller" \in DOMAIN m
    THEN <<m.type, m.channel, "cc", m.controller>>
    ELSE <<m.type, m.channel>>

\* this.lookupTable.get(key) for the table of _buildLookupTable
\* (MIDITranslator.js:100-115): table.set in declaration order, so the last
\* entry with a pattern holds its key.  <<>> when the table has no entry.
Lookup(key) ==
    LET hits == SelectSeq(MidiMappingOrder,
                    LAMBDA k : /\ "midi" \in DOMAIN MidiMappings[k]
                               /\ CreateLookupKey(MidiMappings[k].midi) = key)
    IN  IF hits = <<>> THEN <<>> ELSE <<hits[Len(hits)]>>

\* What `new Function(..., "return " + expression)` computes for the
\* expressions of the mappings, given the variables of the context as
\* numbers (value, velocity, delta) and the modifier flags `mods`;
\* threw is TRUE when the evaluation raises an exception.
EvalJs(expression, value, velocity, delta, mods) ==
    CASE expression = "value > 64 ? 'down' : 'up'" ->
            [threw |-> FALSE,
             result |-> JsStr(IF value.k = "number" /\ value.n > 64
                              THEN "down" ELSE "up")]
      [] expression = "value * 2" ->
            [threw |-> FALSE,
             result |-> IF value.k = "number" THEN JsNum(value.n * 2)
                        ELSE JsNaN]
      [] expression = "delta * 2" ->
            [threw |-> FALSE,
             result |-> IF delta.k = "number" THEN JsNum(delta.n * 2)
                        ELSE JsNaN]
      [] expression = "shift ? 'scratch' : 'bend'" ->
            IF "shift" \in DOMAIN mods
            THEN [threw |-> FALSE,
                  result |-> JsStr(IF mods.shift THEN "scratch" ELSE "bend")]
            ELSE [threw |-> TRUE, result |-> JsUndefined]
      [] expression = "shift" ->
            IF "shift" \in DOMAIN mods
            THEN [threw |-> FALSE, result |-> JsBool(mods.shift)]
            ELSE [threw |-> TRUE, result |-> JsUndefined]
      [] OTHER -> \* "missing.level": ReferenceError
            [threw |-> TRUE, result |-> JsUndefined]

\* A value used as a condition
Truthy(a) ==
    CASE a.k \in {"number", "boolean", "ratio"} -> a.n # 0
      [] a.k = "string" -> a.s # ""
      [] OTHER -> FALSE

\* a || b
JsOr(a, b) == IF Truthy(a) THEN a ELSE b

\* event.field, undefined when the event has no such field
Field(e, f) == IF f \in DOMAIN e THEN JsNum(e[f]) ELSE JsUndefined

\* Faulty variant: no value stands in for the result of a failed evaluation.
MidiEvaluateExpressionNoFallback(expression, midiEvent) ==
    LET value == JsOr(Field(midiEvent, "value"),
                      JsOr(Field(midiEvent, "velocity"), JsNum(0)))
        velocity == JsOr(Field(midiEvent, "velocity"), JsNum(0))
    IN  EvalJs(expression, value, velocity, JsUndefined, <<>>).result

\* MIDITranslator._evaluateExpression (MIDITranslator.js:210-228)
MidiEvaluateExpression(expression, midiEvent) ==
    LET value == JsOr(Field(midiEvent, "value"),
                      JsOr(Field(midiEvent, "velocity"), JsNum(0)))
        velocity == JsOr(Field(midiEvent, "velocity"), JsNum(0))
        r == EvalJs(expression, value, velocity, JsUndefined, <<>>)
    IN  IF r.threw THEN value ELSE r.result

\* Faulty variant: the event's raw value is used whatever the mapping says.
MidiValueRawOnly(midiEvent, mappingAction) ==
    JsOr(Field(midiEvent, "velocity"), Field(midiEvent, "value"))

\* The value chosen at MIDITranslator.js:168-190.
MidiValue(midiEvent, mappingAction) ==
    IF "value" \in DOMAIN mappingAction
    THEN mappingAction.value
    ELSE IF "valueExpression" \in DOMAIN mappingAction
    THEN MidiEvaluateExpression(mappingAction.valueExpression, midiEvent)
    ELSE IF "highRes" \in DOMAIN midiEvent /\ midiEvent.highRes
            /\ "normalized" \in DOMAIN midiEvent
    THEN JsRatio(midiEvent.normalized.num, midiEvent.normalized.den)
    ELSE LET rawValue == JsOr(Field(midiEvent, "velocity"),
                              Field(midiEvent, "value"))
         IN  IF midiEvent.type = "cc"
             THEN IF rawValue.k = "number" THEN JsRatio(rawValue.n, 127)
                  ELSE JsNaN
             ELSE rawValue

\* Faulty variant: the velocity is passed on as a number.
TransportValueRaw(midiEvent) == JsNum(midiEvent.velocity)

\* midiEvent.velocity > 0   (MIDITranslator.js:200)
TransportValue(midiEvent) == JsBool(midiEvent.velocity > 0)

\* mapping.action.deck / .direction when the mapping has none
Absent == "undefined"

\* MIDITranslator._buildAction(midiEvent, mapping) (MIDITranslator.js:153-204)
MidiBuildAction(midiEvent, mapping) ==
    [type |-> mapping.action.type,
     command |-> mapping.action.command,
     target |-> mapping.target,
     priority |-> mapping.priority,
     timestamp |-> midiEvent.timestamp,
     deviceId |-> midiEvent.deviceId,
     deck |-> IF "deck" \in DOMAIN mapping.action THEN mapping.action.deck
              ELSE Absent,
     direction |->
        IF "direction" \in DOMAIN mapping.action
        THEN MidiEvaluateExpression(mapping.action.direction, midiEvent)
        ELSE JsUndefined,
     value |->
        IF mapping.action.type = "transport" /\ midiEvent.type = "noteon"
        THEN TransportValue(midiEvent)
        ELSE MidiValue(midiEvent, mapping.action)]

\* MIDITranslator.translate(midiEvent) (MIDITranslator.js:24-55): <<>> for
\* null, <<action>> otherwise.  Every entry of the table has an action
\* section, so _buildAction raises no exception.
MidiTranslate(midiEvent) ==
    LET mappingKey == Lookup(CreateLookupKey(midiEvent))
    IN  IF mappingKey = <<>> THEN <<>>
        ELSE <<MidiBuildAction(midiEvent, MidiMappings[mappingKey[1]])>>

\* A call of translate() on the MIDI translator.
TranslateMIDI(midiEvent) ==
    /\ translated' = [protocol |-> "midi", event |-> <<midiEvent>>,
                      result |-> MidiTranslate(midiEvent), mods |-> <<>>]
    /\ UNCHANGED modifierState
    /\ UNCHANGED notTranslatorVars


(***************************************************************************)
(* HIDTranslator (src/src/translators/HIDTranslator.js)                    *)
(***************************************************************************)
\* mapping.parsing.controls of the HID mapping: the controls the manager
\* parses, a shift button declared as modifier, a second modifier, a
\* third modifier (alt) that has no entry in the mappings, an encoder and a
\* pad button.
HidParsingControls ==
    [n \in DOMAIN ParsingControls
            \cup {"shift", "fn", "alt", "browse", "pad"} |->
        IF n \in DOMAIN ParsingControls THEN ParsingControls[n]
        ELSE IF n = "shift" THEN [type |-> "modifier", byte |-> 4]
        ELSE IF n = "fn" THEN [type |-> "modifier", byte |-> 5]
        ELSE IF n = "alt" THEN [type |-> "modifier", byte |-> 8]
        ELSE IF n = "browse" THEN [type |-> "encoder", byte |-> 6]
        ELSE [type |-> "button", byte |-> 7, bit |-> 0]]

\* mapping.mappings of the HID mapping.  Target and priority stand at the
\* top level of an entry, where validateDeviceMapping looks for them; the
\* fader and the jog wheel repeat them inside the action section.  `ghost`
\* is mapped but has no parsing descriptor; `fn` is a modifier without an
\* action section.
HidMappings ==
    [play |->
        [action |-> [type |-> "transport", command |-> "play", deck |-> "A"],
         target |-> "app", priority |-> "high"],
     fader |->
        [action |-> [type |-> "mixer", command |-> "volume", deck |-> "A",
                     target |-> "audio", priority |-> "normal"],
         target |-> "audio", priority |-> "normal"],
     jog |->
        [action |-> [type |-> "jog", command |-> "scratch", deck |-> "A",
                     mode |-> "shift ? 'scratch' : 'bend'",
                     target |-> "audio", priority |-> "critical"],
         target |-> "audio", priority |-> "critical"],
     shift |->
        [action |-> [type |-> "modifier", command |-> "shift"],
         target |-> "ui", priority |-> "normal"],
     fn |->
        [target |-> "ui", priority |-> "normal"],
     browse |->
        [action |-> [type |-> "library", command |-> "browse",
                     valueExpression |-> "delta * 2"],
         target |-> "ui", priority |-> "normal"],
     pad |->
        [action |-> [type |-> "hotcue", command |-> "trigger",
                     value |-> JsNum(5), emitRelease |-> TRUE],
         condition |-> "shift",
         target |-> "audio", priority |-> "high"],
     ghost |->
        [action |-> [type |-> "system", command |-> "noop"],
         target |-> "app", priority |-> "normal"]]

\* The events given to translate(): the controls above and one that has no
\* mapping, with the values and deltas a poll can give them.
HidEvents ==
    {[deviceId |-> "hid-A", control |-> c,
      type |-> IF c \in DOMAIN HidParsingControls
               THEN HidParsingControls[c].type ELSE "button",
      value |-> v, delta |-> d, timestamp |-> 0] :
        c \in DOMAIN HidMappings \cup {"unmapped", "alt"},
        v \in {JsNum(0), JsNum(1), JsNum(200), JsUndefined},
        d \in {JsNum(-1), JsNum(1)}}

TranslatorInit ==
    /\ modifierState = <<>>
    /\ translated = [protocol |-> "none", event |-> <<>>, result |-> <<>>,
                     mods |-> <<>>]

\* a > 0
GreaterThanZero(a) == a.k \in {"number", "ratio"} /\ a.n > 0

\* HIDTranslator._evaluateExpression (HIDTranslator.js:233-256)
HidEvaluateExpression(expression, hidEvent, mods) ==
    LET r == EvalJs(expression, hidEvent.value, JsUndefined, hidEvent.delta,
                    mods)
    IN  IF r.threw THEN hidEvent.value ELSE r.result

\* HIDTranslator._evaluateCondition (HIDTranslator.js:262-282)
HidEvaluateCondition(condition, mods) ==
    LET r == EvalJs(condition, JsUndefined, JsUndefined, JsUndefined, mods)
    IN  IF r.threw THEN JsBool(FALSE) ELSE r.result

\* this.modifierState after the update at HIDTranslator.js:46-49
ModifiersAfter(hidEvent, mods) ==
    IF /\ hidEvent.control \in DOMAIN HidMappings
       /\ hidEvent.control \in DOMAIN HidParsingControls
       /\ HidParsingControls[hidEvent.control].type = "modifier"
    THEN [m \in DOMAIN mods \cup {hidEvent.control} |->
             IF m = hidEvent.control THEN GreaterThanZero(hidEvent.value)
             ELSE mods[m]]
    ELSE mods

\* (hidEvent.value - min) / (max - min)   (HIDTranslator.js:197-200)
NormalizeAbsolute(value, controlConfig) ==
    LET min == IF "min" \in DOMAIN controlConfig THEN controlConfig.min ELSE 0
        max == IF "max" \in DOMAIN controlConfig /\ controlConfig.max # 0
               THEN controlConfig.max
               ELSE Pow2(controlConfig.resolution) - 1
    IN  IF value.k = "number" THEN JsRatio(value.n - min, max - min)
        ELSE JsNaN

\* The value set by the branch of the control type (HIDTranslator.js:177-211)
HidTypeValue(hidEvent, controlConfig) ==
    CASE controlConfig.type = "delta" -> hidEvent.value
      [] controlConfig.type = "button" ->
            JsBool(GreaterThanZero(hidEvent.value))
      [] controlConfig.type = "absolute" ->
            NormalizeAbsolute(hidEvent.value, controlConfig)
      [] OTHER -> JsUndefined

\* The value of the action (HIDTranslator.js:177-224): the value expression
\* when the mapping has one, the value of the control type otherwise.
HidValue(hidEvent, mappingAction, controlConfig, mods) ==
    IF "valueExpression" \in DOMAIN mappingAction
    THEN HidEvaluateExpression(mappingAction.valueExpression, hidEvent, mods)
    ELSE HidTypeValue(hidEvent, controlConfig)

\* mapping.action.target || 'audio', mapping.action.priority || 'normal'
\* (HIDTranslator.js:165-166)
HidRoute(mappingAction) ==
    [target |-> IF "target" \in DOMAIN mappingAction
                THEN mappingAction.target ELSE "audio",
     priority |-> IF "priority" \in DOMAIN mappingAction
                  THEN mappingAction.priority ELSE "normal"]

\* HIDTranslator._buildAction(hidEvent, mapping) (HIDTranslator.js:152-227),
\* with the modifier state `mods`: <<>> for null.
HidBuildAction(hidEvent, mapping, mods) ==
    IF hidEvent.control \notin DOMAIN HidParsingControls
    THEN <<>>
    ELSE
    LET controlConfig == HidParsingControls[hidEvent.control]
        released == /\ controlConfig.type = "button"
                    /\ ~GreaterThanZero(hidEvent.value)
                    /\ ~( /\ "emitRelease" \in DOMAIN mapping.action
                          /\ mapping.action.emitRelease )
        conditionFails ==
            /\ "condition" \in DOMAIN mapping
            /\ ~Truthy(HidEvaluateCondition(mapping.condition, mods))
    IN  IF released \/ conditionFails
        THEN <<>>
        ELSE <<[type |-> mapping.action.type,
                command |-> mapping.action.command,
                target |-> HidRoute(mapping.action).target,
                priority |-> HidRoute(mapping.action).priority,
                timestamp |-> hidEvent.timestamp,
                deviceId |-> hidEvent.deviceId,
                deck |-> IF "deck" \in DOMAIN mapping.action
                         THEN mapping.action.deck ELSE Absent,
                delta |-> IF controlConfig.type \in {"delta", "encoder"}
                          THEN hidEvent.delta ELSE JsUndefined,
                mode |-> IF controlConfig.type = "delta"
                            /\ "mode" \in DOMAIN mapping.action
                         THEN HidEvaluateExpression(mapping.action.mode,
                                                    hidEvent, mods)
                         ELSE JsUndefined,
                rawValue |-> IF controlConfig.type = "absolute"
                             THEN hidEvent.value ELSE JsUndefined,
                direction |->
                    IF controlConfig.type # "encoder" THEN JsUndefined
                    ELSE IF "direction" \in DOMAIN mapping.action
                    THEN HidEvaluateExpression(mapping.action.direction,
                                               hidEvent, mods)
                    ELSE JsStr(IF GreaterThanZero(hidEvent.delta)
                               THEN "up" ELSE "down"),
                value |-> HidValue(hidEvent, mapping.action, controlConfig,
                                   mods)]>>

\* HIDTranslator.translate(hidEvent) (HIDTranslator.js:29-90): what it
\* returns, <<>> for null.  `mods` is the modifier state after the update.
HidTranslate(hidEvent, mods) ==
    IF hidEvent.control \notin DOMAIN HidMappings
    THEN <<>>
    ELSE LET mapping == HidMappings[hidEvent.control]
         IN  IF "action" \notin DOMAIN mapping
             THEN \* the modifier without action (HIDTranslator.js:52-54), or
                  \* the TypeError of _buildAction caught at line 81
                  <<>>
             ELSE HidBuildAction(hidEvent, mapping, mods)

\* A call of translate() on the HID translator.
TranslateHID(hidEvent) ==
    /\ modifierState' = ModifiersAfter(hidEvent, modifierState)
    /\ translated' =
          [protocol |-> "hid", event |-> <<hidEvent>>,
           result |-> HidTranslate(hidEvent,
                                   ModifiersAfter(hidEvent, modifierState)),
           mods |-> ModifiersAfter(hidEvent, modifierState)]
    /\ UNCHANGED notTranslatorVars

\* resetModifierState() (HIDTranslator.js:323-325)
ResetModifierState ==
    /\ modifierState' = <<>>
    /\ UNCHANGED translated
    /\ UNCHANGED notTranslatorVars

TranslateNext ==
    \/ \E e \in MidiEvents : TranslateMIDI(e)
    \/ \E e \in HidEvents : TranslateHID(e)
    \/ ResetModifierState

(***************************************************************************)
(* ActionMapper (src/src/mapping/ActionMapper.js)                          *)
(***************************************************************************)
\* The device ids getTranslator is called with.
MapperDeviceIds == {"midi-A", "hid-A"}

\* A control mapping that validateDeviceMapping accepts.
PlayMapping ==
    [action |-> [type |-> "transport", command |-> "play"],
     target |-> "audio", priority |-> "high"]

\* The files of config/devices by name (without .json): what JSON.parse
\* gives for each.  ddj.json carries a comment field among its mappings.
\* The last five are refused by validateDeviceMapping: a protocol that is
\* neither midi nor hid, no device name, a control mapping with no action,
\* with a target or with a priority outside the allowed ones.
MappingFiles ==
    ("generic-midi" :> [device |-> [name |-> "Generic MIDI",
                                    protocol |-> "midi"],
                        mappings |-> ("play" :> PlayMapping)])
    @@ ("ddj" :> [device |-> [name |-> "DDJ", protocol |-> "midi"],
                  mappings |-> ("_comment" :> [text |-> "transport"])
                               @@ ("play" :> PlayMapping)])
    @@ ("s2" :> [device |-> [name |-> "s2", protocol |-> "hid",
                             vendorId |-> "0x17cc", productId |-> "0x1320"],
                 mappings |-> ("play" :> PlayMapping)])
    @@ ("bad" :> [device |-> [name |-> "Bad", protocol |-> "osc"],
                  mappings |-> ("play" :> PlayMapping)])
    @@ ("noname" :> [device |-> [protocol |-> "midi"],
                     mappings |-> ("play" :> PlayMapping)])
    @@ ("noaction" :> [device |-> [name |-> "No action",
                                   protocol |-> "midi"],
                       mappings |-> ("play" :> [target |-> "audio",
                                                priority |-> "high"])])
    @@ ("badtarget" :> [device |-> [name |-> "Bad target",
                                    protocol |-> "midi"],
                        mappings |->
                            ("play" :> [PlayMapping EXCEPT
                                            !.target = "deck"])])
    @@ ("badpriority" :> [device |-> [name |-> "Bad priority",
                                      protocol |-> "hid"],
                          mappings |->
                              ("play" :> [PlayMapping EXCEPT
                                              !.priority = "urgent"])])

\* The order in which fs.readdir lists the files.
ReaddirOrder ==
    <<"bad", "badpriority", "badtarget", "ddj", "generic-midi", "noaction",
      "noname", "s2">>

\* The files that are put into config/devices and taken out of it while the
\* mapper runs.
ChangingFiles == {"generic-midi", "s2"}

\* The names the connected devices report.
DeviceNames == {"DDJ", "my s2", "LK", "bad"}

\* The names a mapping is loaded by.
LoadNames == DOMAIN MappingFiles \cup DeviceNames

\* The characters of the names and of the keys of the mappings.
Chars ==
    ("_comment" :> <<"_", "c", "o", "m", "m", "e", "n", "t">>)
    @@ ("play" :> <<"p", "l", "a", "y">>)
    @@ ("generic-midi" :> <<"g", "e", "n", "e", "r", "i", "c", "-",
                         "m", "i", "d", "i">>)
    @@ ("ddj" :> <<"d", "d", "j">>)
    @@ ("s2" :> <<"s", "2">>)
    @@ ("bad" :> <<"b", "a", "d">>)
    @@ ("DDJ" :> <<"D", "D", "J">>)
    @@ ("my s2" :> <<"m", "y", " ", "s", "2">>)
    @@ ("LK" :> <<"L", "K">>)
    @@ ("TK" :> <<"T", "K">>)

\* String.prototype.toLowerCase
ToLowerCase(cs) ==
    [i \in DOMAIN cs |->
        CASE cs[i] = "D" -> "d"
          [] cs[i] = "J" -> "j"
          [] cs[i] = "K" -> "k"
          [] cs[i] = "L" -> "l"
          [] cs[i] = "T" -> "t"
          [] OTHER -> cs[i]]

\* a.includes(b)
Includes(a, b) ==
    \E i \in 1..(Len(a) - Len(b) + 1) : SubSeq(a, i, i + Len(b) - 1) = b

MapperInit ==
    /\ translators = <<>>
    /\ deviceMappings = <<>>
    /\ configDir = DOMAIN MappingFiles
    /\ lastCall = [op |-> "none"]

\* Map.prototype.has
MapHas(map, key) == \E i \in DOMAIN map : map[i] = key

\* Map.prototype.set: a new key goes to the end, a present key keeps its
\* place.
MapSet(map, key) == IF MapHas(map, key) THEN map ELSE Append(map, key)

\* Map.prototype.delete
MapDelete(map, key) == SelectSeq(map, LAMBDA k : k # key)

\* key.startsWith(prefix), prefix being one character
StartsWith(key, prefix) == Chars[key][1] = prefix

\* validateDeviceMapping(mapping) without the loop over the mappings.
ValidateDeviceOnly(mapping) ==
    /\ "device" \in DOMAIN mapping
    /\ "name" \in DOMAIN mapping.device
    /\ "protocol" \in DOMAIN mapping.device
    /\ mapping.device.protocol \in {"midi", "hid"}
    /\ "mappings" \in DOMAIN mapping

\* validateDeviceMapping(mapping) does not throw (logger.js:131-167).
ValidateDeviceMapping(mapping) ==
    /\ "device" \in DOMAIN mapping
    /\ "name" \in DOMAIN mapping.device
    /\ "protocol" \in DOMAIN mapping.device
    /\ mapping.device.protocol \in {"midi", "hid"}
    /\ "mappings" \in DOMAIN mapping
    /\ \A key \in DOMAIN mapping.mappings :
          \/ StartsWith(key, "_")
          \/ /\ "action" \in DOMAIN mapping.mappings[key]
             /\ "target" \in DOMAIN mapping.mappings[key]
             /\ mapping.mappings[key].target \in {"audio", "app", "ui"}
             /\ "priority" \in DOMAIN mapping.mappings[key]
             /\ mapping.mappings[key].priority
                    \in {"critical", "high", "normal"}

\* loadMapping(deviceName) (ActionMapper.js:24-45) on the cache `loaded`:
\* threw, and the cache after the call.  loadDeviceMapping reads
\* <deviceName>.json (logger.js:114-124); file names are case sensitive.
LoadMappingResult(deviceName, loaded) ==
    IF /\ deviceName \in configDir
       /\ ValidateDeviceMapping(MappingFiles[deviceName])
    THEN [threw |-> FALSE, loaded |-> MapSet(loaded, deviceName)]
    ELSE [threw |-> TRUE, loaded |-> loaded]

\* findMatchingMapping(deviceName) (ActionMapper.js:220-251), vendor and
\* product being null: the key of the mapping found, <<>> for null.
FindMatchingMapping(deviceName, loaded) ==
    IF MapHas(loaded, deviceName) THEN <<deviceName>>
    ELSE LET lowerDeviceName == ToLowerCase(Chars[deviceName])
             partial == SelectSeq(loaded,
                 LAMBDA name :
                     \/ Includes(lowerDeviceName, ToLowerCase(Chars[name]))
                     \/ Includes(ToLowerCase(Chars[name]), lowerDeviceName))
         IN  IF partial = <<>> THEN <<>> ELSE <<partial[1]>>

\* The mapping getTranslator builds from, without the generic-midi attempt.
ResolveMappingNoFallback(deviceName, loaded) ==
    LET found == FindMatchingMapping(deviceName, loaded)
        specific == LoadMappingResult(deviceName, loaded)
    IN  IF found # <<>>
        THEN [threw |-> FALSE, mapping |-> found[1], loaded |-> loaded]
        ELSE [threw |-> specific.threw, mapping |-> deviceName,
              loaded |-> specific.loaded]

\* The mapping getTranslator builds from (ActionMapper.js:96-112).
ResolveMapping(deviceName, loaded) ==
    LET found == FindMatchingMapping(deviceName, loaded)
        specific == LoadMappingResult(deviceName, loaded)
        generic == LoadMappingResult("generic-midi", loaded)
    IN  IF found # <<>>
        THEN [threw |-> FALSE, mapping |-> found[1], loaded |-> loaded]
        ELSE IF ~specific.threw
        THEN [threw |-> FALSE, mapping |-> deviceName,
              loaded |-> specific.loaded]
        ELSE [threw |-> generic.threw, mapping |-> "generic-midi",
              loaded |-> generic.loaded]

\* new MIDITranslator(mapping) / new HIDTranslator(mapping)
\* (ActionMapper.js:117-123); <<>> when the protocol is neither.
NewTranslator(mapping) ==
    IF MappingFiles[mapping].device.protocol = "midi"
    THEN <<[class |-> "MIDITranslator", mapping |-> mapping]>>
    ELSE IF MappingFiles[mapping].device.protocol = "hid"
    THEN <<[class |-> "HIDTranslator", mapping |-> mapping]>>
    ELSE <<>>

\* translator.getDeviceName()
GetDeviceName(translator) == MappingFiles[translator.mapping].device.name

\* loadMapping(deviceName) (ActionMapper.js:24-45)
LoadMapping(deviceName) ==
    LET r == LoadMappingResult(deviceName, deviceMappings)
    IN  /\ deviceMappings' = r.loaded
        /\ lastCall' = [op |-> "loadMapping", deviceName |-> deviceName,
                        threw |-> r.threw]
        /\ UNCHANGED <<translators, configDir>>
        /\ UNCHANGED notMapperVars

\* The cache after loadAllMappings() (ActionMapper.js:51-81) has gone
\* through the first n files of the listing.
RECURSIVE LoadedThrough(_, _)
LoadedThrough(n, loaded) ==
    IF n = 0 THEN loaded
    ELSE LET before == LoadedThrough(n - 1, loaded)
         IN  IF ReaddirOrder[n] \in configDir
             THEN LoadMappingResult(ReaddirOrder[n], before).loaded
             ELSE before

\* loadAllMappings() (ActionMapper.js:51-81)
LoadAllMappings ==
    /\ deviceMappings' = LoadedThrough(Len(ReaddirOrder), deviceMappings)
    /\ lastCall' = [op |-> "loadAllMappings"]
    /\ UNCHANGED <<translators, configDir>>
    /\ UNCHANGED notMapperVars

\* getTranslator(deviceId, deviceName) (ActionMapper.js:89-131)
GetTranslator(deviceId, deviceName) ==
    IF deviceId \in DOMAIN translators
    THEN /\ lastCall' = [op |-> "getTranslator", deviceId |-> deviceId,
                         deviceName |-> deviceName, threw |-> FALSE,
                         translator |-> <<translators[deviceId]>>]
         /\ UNCHANGED <<translators, deviceMappings, configDir>>
         /\ UNCHANGED notMapperVars
    ELSE LET r == ResolveMapping(deviceName, deviceMappings)
             translator == IF r.threw THEN <<>> ELSE NewTranslator(r.mapping)
         IN  /\ deviceMappings' = r.loaded
             /\ translators' =
                    IF translator = <<>> THEN translators
                    ELSE (deviceId :> translator[1]) @@ translators
             /\ lastCall' = [op |-> "getTranslator", deviceId |-> deviceId,
                             deviceName |-> deviceName,
                             threw |-> translator = <<>>,
                             translator |-> translator]
             /\ UNCHANGED configDir
             /\ UNCHANGED notMapperVars

\* removeTranslator(deviceId) (ActionMapper.js:137-142)
RemoveTranslator(deviceId) ==
    /\ translators' = [d \in DOMAIN translators \ {deviceId} |->
                          translators[d]]
    /\ lastCall' = [op |-> "removeTranslator", deviceId |-> deviceId]
    /\ UNCHANGED <<deviceMappings, configDir>>
    /\ UNCHANGED notMapperVars

\* reloadMapping(deviceName) (ActionMapper.js:149-180)
ReloadMapping(deviceName) ==
    LET devicesToUpdate ==
            {d \in DOMAIN translators :
                GetDeviceName(translators[d]) = deviceName}
        r == LoadMappingResult(deviceName,
                               MapDelete(deviceMappings, deviceName))
    IN  /\ deviceMappings' = r.loaded
        /\ translators' =
               IF r.threw THEN translators
               ELSE [d \in DOMAIN translators |->
                        IF d \in devicesToUpdate
                        THEN IF MappingFiles[deviceName].device.protocol
                                    = "midi"
                             THEN [class |-> "MIDITranslator",
                                   mapping |-> deviceName]
                             ELSE [class |-> "HIDTranslator",
                                   mapping |-> deviceName]
                        ELSE translators[d]]
        /\ lastCall' = [op |-> "reloadMapping", deviceName |-> deviceName,
                        threw |-> r.threw]
        /\ UNCHANGED configDir
        /\ UNCHANGED notMapperVars

\* reloadAllMappings() (ActionMapper.js:186-197)
ReloadAllMappings ==
    /\ translators' = <<>>
    /\ deviceMappings' = LoadedThrough(Len(ReaddirOrder), <<>>)
    /\ lastCall' = [op |-> "reloadAllMappings"]
    /\ UNCHANGED configDir
    /\ UNCHANGED notMapperVars

\* A mapping file is put into config/devices.
WriteMappingFile(name) ==
    /\ name \notin configDir
    /\ configDir' = configDir \cup {name}
    /\ UNCHANGED <<translators, deviceMappings, lastCall>>
    /\ UNCHANGED notMapperVars

\* A mapping file is taken out of config/devices.
DeleteMappingFile(name) ==
    /\ name \in configDir
    /\ configDir' = configDir \ {name}
    /\ UNCHANGED <<translators, deviceMappings, lastCall>>
    /\ UNCHANGED notMapperVars

MapperNext ==
    \/ \E deviceName \in LoadNames : LoadMapping(deviceName)
    \/ LoadAllMappings
    \/ \E deviceId \in MapperDeviceIds, deviceName \in DeviceNames :
          GetTranslator(deviceId, deviceName)
    \/ \E deviceId \in MapperDeviceIds : RemoveTranslator(deviceId)
    \/ \E deviceName \in LoadNames : ReloadMapping(deviceName)
    \/ ReloadAllMappings
    \/ \E name \in ChangingFiles : WriteMappingFile(name)
    \/ \E name \in ChangingFiles : DeleteMappingFile(name)

(***************************************************************************)
(* ControllerServer: from an 'input' event to router.route()               *)
(* (src/unnamed/part_006)                                                  *)
(***************************************************************************)
\* The number of input events handled.
MaxInputs == 3

\* The devices the server finds when it starts: one MIDI input and two HID
\* controllers.
ServerDeviceIds == MapperDeviceIds \cup {"hid-B"}

\* device.name of the connected MIDI device and device.product of the
\* connected HID devices, by device id (part_006:241, 288).
ConnectedName == [d \in ServerDeviceIds |->
                     IF d = "midi-A" THEN "LK"
                     ELSE IF d = "hid-A" THEN "my s2" ELSE "TK"]

\* vendorId and productId of the HID devices as start() formats them
\* (part_006:176-177).
HidDeviceInfo ==
    ("hid-A" :> [vendorId |-> "0x17cc", productId |-> "0x1310"])
    @@ ("hid-B" :> [vendorId |-> "0x17cc", productId |-> "0x1320"])

\* findMatchingMapping(deviceName, vendor, product)
\* (ActionMapper.js:220-251): the key of the mapping found, <<>> for null.
FindMatchingMappingFor(deviceName, vendor, product, loaded) ==
    IF MapHas(loaded, deviceName) THEN <<deviceName>>
    ELSE LET byId == SelectSeq(loaded,
                 LAMBDA name :
                     /\ "vendorId" \in DOMAIN MappingFiles[name].device
                     /\ "productId" \in DOMAIN MappingFiles[name].device
                     /\ MappingFiles[name].device.vendorId = vendor
                     /\ MappingFiles[name].device.productId = product)
         IN  IF byId # <<>> THEN <<byId[1]>>
             ELSE FindMatchingMapping(deviceName, loaded)

\* The mapping start() connects device d with (part_006:141-160, 174-191),
\* <<>> when the device is skipped: a MIDI device falls back to
\* generic-midi, a HID device is looked up by its vendor and product id.
ConnectMapping(d, loaded) ==
    IF d \in DOMAIN HidDeviceInfo
    THEN FindMatchingMappingFor(ConnectedName[d], HidDeviceInfo[d].vendorId,
                                HidDeviceInfo[d].productId, loaded)
    ELSE IF FindMatchingMapping(ConnectedName[d], loaded) # <<>>
    THEN FindMatchingMapping(ConnectedName[d], loaded)
    ELSE IF LoadMappingResult("generic-midi", loaded).threw THEN <<>>
    ELSE <<"generic-midi">>

ServerInit ==
    /\ running = FALSE
    /\ handlers = <<>>
    /\ microtasks = <<>>
    /\ draining = FALSE
    /\ connectedDevices = <<>>
    /\ routeCalls = <<>>
    /\ instances = <<>>

\* start(): the mappings are loaded, the 'input' and 'device:disconnected'
\* listeners are attached, and the devices found are connected, each
\* with the mapping found for it (part_006:71-196).
StartServer ==
    LET loaded == LoadedThrough(Len(ReaddirOrder), deviceMappings)
        generic == LoadMappingResult("generic-midi", loaded)
    IN  /\ ~running
        /\ running' = TRUE
        /\ deviceMappings' =
               IF FindMatchingMapping(ConnectedName["midi-A"], loaded) = <<>>
               THEN generic.loaded ELSE loaded
        /\ connectedDevices' =
               [d \in {e \in ServerDeviceIds :
                          ConnectMapping(e, loaded) # <<>>} |->
                   ConnectMapping(d, loaded)[1]]
        /\ UNCHANGED <<handlers, microtasks, draining, routeCalls, instances>>
        /\ UNCHANGED <<translators, configDir, lastCall>>
        /\ UNCHANGED notServerVars

\* this.translators.set(deviceId, translator)
WithTranslator(deviceId, translator) ==
    (deviceId :> translator) @@ translators

\* The translator object handler h builds, as the handler holds it: the
\* translator with the identity of the object.
Built(translator, h) ==
    [class |-> translator.class, mapping |-> translator.mapping,
     instance |-> h]

\* An 'input' event of a connected device reaches its listener:
\* _handleMIDIInput / _handleHIDInput run up to
\* `await this.mapper.getTranslator(...)`, and getTranslator runs up to its
\* first await (part_006:229-241, 276-288; ActionMapper.js:89-101).
\* mapped: the translator has a mapping for the event.  A cached
\* translator, or one built from a loaded mapping, resolves the promise at
\* once; otherwise the read of <name>.json is started.
HandleInput(deviceId, mapped) ==
    LET found == FindMatchingMapping(ConnectedName[deviceId], deviceMappings)
        translator == IF found = <<>> THEN <<>> ELSE NewTranslator(found[1])
        pc == IF deviceId \in DOMAIN translators THEN "resume"
              ELSE IF found = <<>> THEN "readSpecific"
              ELSE IF translator = <<>> THEN "failed"
              ELSE "resume"
        id == Len(handlers) + 1
        got == IF deviceId \in DOMAIN translators
               THEN <<Built(translators[deviceId], instances[deviceId])>>
               ELSE IF translator # <<>> THEN <<Built(translator[1], id)>>
               ELSE <<>>
    IN  /\ running
        /\ ~draining
        /\ deviceId \in DOMAIN connectedDevices
        /\ Len(handlers) < MaxInputs
        /\ handlers' = Append(handlers, [deviceId |-> deviceId,
                                         mapped |-> mapped, pc |-> pc,
                                         translator |-> got])
        /\ translators' =
               IF deviceId \notin DOMAIN translators /\ translator # <<>>
               THEN WithTranslator(deviceId, translator[1])
               ELSE translators
        /\ instances' =
               IF deviceId \notin DOMAIN translators /\ translator # <<>>
               THEN (deviceId :> id) @@ instances
               ELSE instances
        /\ microtasks' = IF pc = "resume" THEN Append(microtasks, id)
                         ELSE microtasks
        /\ UNCHANGED <<running, draining, connectedDevices, routeCalls>>
        /\ UNCHANGED <<deviceMappings, configDir, lastCall>>
        /\ UNCHANGED notServerVars

\* The fs.readFile started by loadDeviceMapping for handler h completes
\* (logger.js:114-124); the reads of several handlers complete in any
\* order.  loadMapping and getTranslator go on from there
\* (ActionMapper.js:26-44, 101-130): the translator is built and cached,
\* or generic-midi.json is read next, or getTranslator throws and the
\* handler logs the error (part_006:264-269).
ReadCompletes(h) ==
    LET deviceId == handlers[h].deviceId
        name == IF handlers[h].pc = "readSpecific"
                THEN ConnectedName[deviceId] ELSE "generic-midi"
        r == LoadMappingResult(name, deviceMappings)
        translator == IF r.threw THEN <<>> ELSE NewTranslator(name)
        pc == IF ~r.threw /\ translator # <<>> THEN "resume"
              ELSE IF handlers[h].pc = "readSpecific" /\ r.threw
              THEN "readGeneric"
              ELSE "failed"
    IN  /\ h \in DOMAIN handlers
        /\ handlers[h].pc \in {"readSpecific", "readGeneric"}
        /\ microtasks = <<>>
        /\ deviceMappings' = r.loaded
        /\ translators' = IF pc = "resume"
                          THEN WithTranslator(deviceId, translator[1])
                          ELSE translators
        /\ instances' = IF pc = "resume"
                        THEN (deviceId :> h) @@ instances
                        ELSE instances
        /\ handlers' =
               [handlers EXCEPT
                   ![h].pc = pc,
                   ![h].translator = IF pc = "resume"
                                     THEN <<Built(translator[1], h)>>
                                     ELSE <<>>]
        /\ microtasks' = IF pc = "resume" THEN <<h>> ELSE microtasks
        /\ draining' = (pc = "resume")
        /\ UNCHANGED <<running, connectedDevices, routeCalls>>
        /\ UNCHANGED <<configDir, lastCall>>
        /\ UNCHANGED notServerVars

\* The first handler of the microtask queue goes on after its await:
\* translator.translate(event), and router.route(action) if there is an
\* action (part_006:244-263, 291-310).
ResumeHandler ==
    /\ microtasks # <<>>
    /\ handlers' = [handlers EXCEPT ![Head(microtasks)].pc = "done"]
    /\ routeCalls' =
           IF handlers[Head(microtasks)].mapped
           THEN Append(routeCalls,
                       [event |-> Head(microtasks),
                        deviceId |-> handlers[Head(microtasks)].deviceId])
           ELSE routeCalls
    /\ microtasks' = Tail(microtasks)
    /\ draining' = (Tail(microtasks) # <<>>)
    /\ UNCHANGED <<running, connectedDevices, instances>>
    /\ UNCHANGED mapperVars
    /\ UNCHANGED notServerVars

\* A manager emits 'device:disconnected' for a connected device and the
\* listener of the server runs: mapper.removeTranslator(info.deviceId)
\* (part_006:92-97, 114-119; ActionMapper.js:137-142).  The manager has
\* dropped the device, so no further input of it arrives.
DeviceDisconnected(deviceId) ==
    /\ running
    /\ microtasks = <<>>
    /\ deviceId \in DOMAIN connectedDevices
    /\ connectedDevices' = [d \in DOMAIN connectedDevices \ {deviceId} |->
                               connectedDevices[d]]
    /\ translators' = [d \in DOMAIN translators \ {deviceId} |->
                          translators[d]]
    /\ instances' = [d \in DOMAIN instances \ {deviceId} |-> instances[d]]
    /\ UNCHANGED <<running, handlers, microtasks, draining, routeCalls>>
    /\ UNCHANGED <<deviceMappings, configDir, lastCall>>
    /\ UNCHANGED notServerVars

ServerNext ==
    \/ StartServer
    \/ \E deviceId \in ServerDeviceIds, mapped \in BOOLEAN :
          HandleInput(deviceId, mapped)
    \/ \E h \in 1..MaxInputs : ReadCompletes(h)
    \/ ResumeHandler
    \/ \E deviceId \in ServerDeviceIds : DeviceDisconnected(deviceId)

(***************************************************************************)
(* AudioEngineClient (src/unnamed/part_005:10-235) and WebUIClient         *)
(* (src/src/websocket/WebUIClient.js), which reconnect in the same way.    *)
(* The URL is well formed, so `new WebSocket(url)` does not throw.  The    *)
(* socket of the ws library emits 'close' once when an attempt fails       *)
(* (after its 'error'), when it is terminated and when an open connection  *)
(* ends.                                                                   *)
(***************************************************************************)
\* The number of failed attempts, closes and disconnect() calls.
MaxFailures == 4

ClientInit ==
    /\ ws = "null"
    /\ clientConnected = FALSE
    /\ reconnectAttempts = 0
    /\ reconnectTimer = 0
    /\ timers = {}
    /\ detached = FALSE
    /\ crashed = FALSE
    /\ disconnectCalled = FALSE
    /\ connects = 0
    /\ failures = 0

\* _scheduleReconnect() (part_005:184-207; WebUIClient.js:121-143);
\* maxReconnectAttempts is Infinity.
ScheduleReconnect ==
    IF reconnectTimer # 0
    THEN UNCHANGED <<reconnectAttempts, reconnectTimer, timers>>
    ELSE /\ reconnectAttempts' = reconnectAttempts + 1
         /\ reconnectTimer' = connects + 1
         /\ timers' = timers \cup {connects + 1}

\* connect() called by the server at its start (part_006:48): a socket is
\* created (part_005:26-31).
Connect ==
    /\ ~crashed
    /\ connects = 0
    /\ ws' = "connecting"
    /\ connects' = 1
    /\ disconnectCalled' = FALSE
    /\ UNCHANGED <<clientConnected, reconnectAttempts, reconnectTimer, timers,
                   detached, crashed, failures>>
    /\ UNCHANGED notClientVars

\* ws 'open' (part_005:40-53)
OnOpen ==
    /\ ~crashed
    /\ ws = "connecting"
    /\ ws' = "open"
    /\ clientConnected' = TRUE
    /\ reconnectAttempts' = 0
    /\ UNCHANGED <<reconnectTimer, timers, detached, crashed,
                   disconnectCalled, connects, failures>>
    /\ UNCHANGED notClientVars

\* ws 'close' (part_005:66-72)
OnClose ==
    /\ clientConnected' = FALSE
    /\ ScheduleReconnect

\* The attempt fails: ws 'error' with this.connected false rejects the
\* promise (part_005:74-83), or the connect timeout finds this.connected
\* false after 10 s, terminates the socket and rejects (part_005:33-38);
\* then ws 'close'.
AttemptFails ==
    /\ ~crashed
    /\ ws = "connecting"
    /\ failures < MaxFailures
    /\ failures' = failures + 1
    /\ ws' = "closed"
    /\ OnClose
    /\ UNCHANGED <<detached, crashed, disconnectCalled, connects>>
    /\ UNCHANGED notClientVars

\* The open connection ends: ws 'close'.
ConnectionCloses ==
    /\ ~crashed
    /\ ws = "open"
    /\ failures < MaxFailures
    /\ failures' = failures + 1
    /\ ws' = "closed"
    /\ OnClose
    /\ UNCHANGED <<detached, crashed, disconnectCalled, connects>>
    /\ UNCHANGED notClientVars

\* The open connection ends with an error of the socket (a frame the
\* library refuses): ws 'error' with this.connected true emits 'error' on
\* the client (part_005:84-86).  The server attaches no 'error' listener to
\* its clients (part_006:42-50, 505), so the emit throws inside the
\* library's callback and the exception is uncaught.
ConnectionErrors ==
    /\ ~crashed
    /\ ws = "open"
    /\ failures < MaxFailures
    /\ failures' = failures + 1
    /\ ws' = "closed"
    /\ crashed' = TRUE
    /\ UNCHANGED <<clientConnected, reconnectAttempts, reconnectTimer, timers,
                   detached, disconnectCalled, connects>>
    /\ UNCHANGED notClientVars

\* The reconnect timer runs (part_005:202-207): connect().
ReconnectTimerFires ==
    /\ ~crashed
    /\ reconnectTimer \in timers
    /\ timers' = timers \ {reconnectTimer}
    /\ reconnectTimer' = 0
    /\ ws' = "connecting"
    /\ connects' = connects + 1
    /\ UNCHANGED <<clientConnected, reconnectAttempts, detached, crashed,
                   disconnectCalled, failures>>
    /\ UNCHANGED notClientVars

\* disconnect() (part_005:212-225): the socket it closes emits its 'close'
\* later.
Disconnect ==
    /\ ~crashed
    /\ ~detached
    /\ failures < MaxFailures
    /\ failures' = failures + 1
    /\ timers' = timers \ {reconnectTimer}
    /\ reconnectTimer' = 0
    /\ detached' = (ws \in {"connecting", "open"})
    /\ ws' = "null"
    /\ clientConnected' = FALSE
    /\ disconnectCalled' = TRUE
    /\ UNCHANGED <<reconnectAttempts, crashed, connects>>
    /\ UNCHANGED notClientVars

\* The socket closed by disconnect() emits 'close' (part_005:66-72).
DetachedCloses ==
    /\ ~crashed
    /\ detached
    /\ detached' = FALSE
    /\ OnClose
    /\ UNCHANGED <<ws, crashed, disconnectCalled, connects, failures>>
    /\ UNCHANGED notClientVars

ClientNext ==
    \/ Connect
    \/ OnOpen
    \/ AttemptFails
    \/ ConnectionCloses
    \/ ConnectionErrors
    \/ ReconnectTimerFires
    \/ Disconnect
    \/ DetachedCloses

(***************************************************************************)
(* FeedbackManager (src/unnamed/part_005:457-754)                          *)
(***************************************************************************)
\* The number of calls of the manager and of steps of the time.
MaxFeedbackCalls == 3
MaxFeedbackTicks == 2

\* The steps of the time, in ms.
FeedbackSteps == {4, 16, 80}

\* this.updateThrottles (part_005:492-496)
UpdateThrottles == [led |-> 20, vuMeter |-> 16, display |-> 100]

\* midiManager.getConnectedDevices(): the ids of the connected devices.
FeedbackDevices == {"midi-A"}

\* The state of a deck after the constructor (part_005:467-481).
InitialDeck ==
    [playback |-> [playing |-> FALSE, paused |-> FALSE, cued |-> FALSE],
     position |-> [currentTime |-> 0, duration |-> 0],
     vuMeter |-> [peak |-> 0, rms |-> 0],
     sync |-> [enabled |-> FALSE, locked |-> FALSE],
     tempo |-> [bpm |-> 120, pitch |-> 0]]

\* The 'state' messages of the audio engine: partial objects for deck A,
\* for deck b, for no deck, and for a deck the manager does not have.
AudioStates ==
    {[deck |-> "A", playback |-> [playing |-> TRUE]],
     [deck |-> "b", playback |-> [cued |-> TRUE],
      sync |-> [enabled |-> TRUE]],
     [vuMeter |-> [peak |-> 5]],
     [deck |-> "A", position |-> [currentTime |-> 7],
      sync |-> [enabled |-> TRUE, locked |-> TRUE],
      tempo |-> [bpm |-> 128]],
     [deck |-> "C", playback |-> [playing |-> TRUE]]}

\* The 'state' messages of the app server.
AppStates == {[selectedTrack |-> "track-1"]}

FeedbackInit ==
    /\ feedbackState = [deckA |-> InitialDeck, deckB |-> InitialDeck,
                        library |-> [selectedTrack |-> "null",
                                     playlist |-> "null"]]
    /\ lastUpdate = <<>>
    /\ feedbackNow = 0
    /\ lastFeedback = [op |-> "none"]
    /\ ledEmitted = <<>>
    /\ feedbackCalls = 0
    /\ feedbackTicks = 0

\* Date.now(): the time of the start, which is not 0, and the time since.
DateNow == 1000 + feedbackNow

\* state.deck?.toLowerCase() || 'a'   (part_005:522)
DeckOf(state) ==
    IF "deck" \notin DOMAIN state THEN "a"
    ELSE CASE state.deck = "A" -> "a"
           [] state.deck = "B" -> "b"
           [] state.deck = "C" -> "c"
           [] OTHER -> state.deck

\* `deck${deck.toUpperCase()}`   (part_005:523)
DeckKey(deck) ==
    CASE deck = "a" -> "deckA"
      [] deck = "b" -> "deckB"
      [] OTHER -> "deckC"

\* { ...old, ...new }
Spread(old, new) ==
    [f \in DOMAIN old \cup DOMAIN new |->
        IF f \in DOMAIN new THEN new[f] ELSE old[f]]

\* The deck after the assignments without the spread of the old value.
DeckReplaced(old, state) ==
    [f \in DOMAIN old |-> IF f \in DOMAIN state THEN state[f] ELSE old[f]]

\* The deck after the assignments of _onAudioState (part_005:531-553).
DeckAfter(old, state) ==
    [f \in DOMAIN old |->
        IF f \notin DOMAIN state THEN old[f]
        ELSE IF f = "vuMeter" THEN state[f]
        ELSE Spread(old[f], state[f])]

\* The throttle key `${deviceId}:${controlId}` of an LED, controlId being
\* `${control}_${deck}`; `vu_${deck}`; 'trackInfo'.
LedKey(deviceId, control, deck) ==
    [class |-> "led", deviceId |-> deviceId, control |-> control,
     deck |-> deck]
VuKey(deck) ==
    [class |-> "vuMeter", deviceId |-> "", control |-> "vu", deck |-> deck]
TrackInfoKey ==
    [class |-> "display", deviceId |-> "", control |-> "trackInfo",
     deck |-> ""]

\* _shouldUpdate that lets every update through.
ShouldUpdateAlways(key, intervalMs, last) == TRUE

\* _shouldUpdate(key, intervalMs) on the map `last` (part_005:683-692)
ShouldUpdate(key, intervalMs, last) ==
    IF key \notin DOMAIN last \/ last[key] = 0 THEN TRUE
    ELSE DateNow - last[key] >= intervalMs

\* The keys of the set that pass _shouldUpdate.
Passing(keys, last) ==
    {key \in keys : ShouldUpdate(key, UpdateThrottles[key.class], last)}

\* this.lastUpdate.set(key, Date.now()) for the keys
WithUpdates(keys, last) ==
    [key \in DOMAIN last \cup keys |->
        IF key \in keys THEN DateNow ELSE last[key]]

\* The keys _onAudioState asks _shouldUpdate about: the LEDs of
\* _updatePlaybackFeedback and _updateSyncFeedback for every connected
\* device, and the key of _updateVUMeterFeedback (part_005:578-632).
AudioKeys(state) ==
    LET deck == DeckOf(state)
    IN  {LedKey(d, "play", deck) :
            d \in {x \in FeedbackDevices :
                      /\ "playback" \in DOMAIN state
                      /\ "playing" \in DOMAIN state.playback}}
        \cup {LedKey(d, "cue", deck) :
                d \in {x \in FeedbackDevices :
                          /\ "playback" \in DOMAIN state
                          /\ "cued" \in DOMAIN state.playback}}
        \cup {LedKey(d, "sync", deck) :
                d \in {x \in FeedbackDevices : "sync" \in DOMAIN state}}
        \cup {VuKey(deck) : x \in {y \in {1} : "vuMeter" \in DOMAIN state}}

\* object.field is truthy, the field being a boolean or missing
FieldTruthy(object, field) == field \in DOMAIN object /\ object[field]

\* The state passed to _updateLED for an LED key, computed from `from`: the
\* message in _updatePlaybackFeedback and _updateSyncFeedback
\* (part_005:584-603), the deck of the cache in _syncDeckState
\* (part_005:743-750).
LedState(key, from) ==
    CASE key.control = "play" ->
             IF FieldTruthy(from.playback, "playing") THEN "playing" ELSE "stopped"
      [] key.control = "cue" ->
             IF FieldTruthy(from.playback, "cued") THEN "cued" ELSE "stopped"
      [] OTHER ->
             IF FieldTruthy(from.sync, "enabled") /\ FieldTruthy(from.sync, "locked")
             THEN "locked"
             ELSE IF FieldTruthy(from.sync, "enabled") THEN "enabled"
             ELSE "disabled"

\* ledEmitted after the _updateLED calls for the keys that passed, each
\* with the state computed from from[key].
WithEmitted(passing, from) ==
    LET leds == {key \in passing : key.class = "led"}
    IN  [key \in DOMAIN ledEmitted \cup leds |->
            IF key \in leds THEN LedState(key, from[key])
            ELSE ledEmitted[key]]

\* _onAudioState(state) (part_005:521-556)
OnAudioState(state) ==
    LET deckKey == DeckKey(DeckOf(state))
        known == deckKey \in DOMAIN feedbackState
        keys == IF known THEN AudioKeys(state) ELSE {}
        passing == Passing(keys, lastUpdate)
    IN  /\ feedbackCalls < MaxFeedbackCalls
        /\ feedbackCalls' = feedbackCalls + 1
        /\ feedbackState' =
               IF known
               THEN [feedbackState EXCEPT
                        ![deckKey] = DeckAfter(feedbackState[deckKey], state)]
               ELSE feedbackState
        /\ lastUpdate' = WithUpdates(passing, lastUpdate)
        /\ lastFeedback' = [op |-> "onAudioState", state |-> state,
                            asked |-> keys, updated |-> passing]
        /\ ledEmitted' = WithEmitted(passing, [key \in passing |-> state])
        /\ UNCHANGED <<feedbackNow, feedbackTicks>>
        /\ UNCHANGED notFeedbackVars

\* _onAppState(state) (part_005:561-572)
OnAppState(state) ==
    LET keys == IF "selectedTrack" \in DOMAIN state THEN {TrackInfoKey}
                ELSE {}
        passing == Passing(keys, lastUpdate)
    IN  /\ feedbackCalls < MaxFeedbackCalls
        /\ feedbackCalls' = feedbackCalls + 1
        /\ feedbackState' =
               [feedbackState EXCEPT
                   !.library =
                       [f \in DOMAIN @ |->
                           IF f \in DOMAIN state THEN state[f] ELSE @[f]]]
        /\ lastUpdate' = WithUpdates(passing, lastUpdate)
        /\ lastFeedback' = [op |-> "onAppState", state |-> state,
                            asked |-> keys, updated |-> passing]
        /\ UNCHANGED <<feedbackNow, feedbackTicks, ledEmitted>>
        /\ UNCHANGED notFeedbackVars

\* syncDevice(deviceId) (part_005:725-753): _syncDeckState for deck a and
\* for deck b, then the track info; the awaits between them give way to
\* microtasks only, so the call is one step.
SyncDevice(deviceId) ==
    LET keys == {LedKey(deviceId, control, deck) :
                    control \in {"play", "cue", "sync"}, deck \in {"a", "b"}}
                \cup IF feedbackState.library.selectedTrack # "null"
                     THEN {TrackInfoKey} ELSE {}
        passing == Passing(keys, lastUpdate)
    IN  /\ feedbackCalls < MaxFeedbackCalls
        /\ feedbackCalls' = feedbackCalls + 1
        /\ lastUpdate' = WithUpdates(passing, lastUpdate)
        /\ lastFeedback' = [op |-> "syncDevice", deviceId |-> deviceId,
                            asked |-> keys, updated |-> passing]
        /\ ledEmitted' =
               WithEmitted(passing,
                           [key \in passing |->
                               IF key.class = "led"
                               THEN feedbackState[DeckKey(key.deck)]
                               ELSE <<>>])
        /\ UNCHANGED <<feedbackState, feedbackNow, feedbackTicks>>
        /\ UNCHANGED notFeedbackVars

\* The time goes on.
FeedbackTick(step) ==
    /\ feedbackTicks < MaxFeedbackTicks
    /\ feedbackTicks' = feedbackTicks + 1
    /\ feedbackNow' = feedbackNow + step
    /\ UNCHANGED <<feedbackState, lastUpdate, lastFeedback, ledEmitted,
                   feedbackCalls>>
    /\ UNCHANGED notFeedbackVars

FeedbackNext ==
    \/ \E state \in AudioStates : OnAudioState(state)
    \/ \E state \in AppStates : OnAppState(state)
    \/ \E deviceId \in FeedbackDevices : SyncDevice(deviceId)
    \/ \E step \in FeedbackSteps : FeedbackTick(step)

Init ==
    /\ RouterInit /\ MidiInit /\ HidInit /\ TranslatorInit /\ MapperInit
    /\ ServerInit /\ ClientInit /\ FeedbackInit

\* The router with its client.
Next == RouterNext

Spec == Init /\ [][Next]_vars

\* The MIDI manager.
MidiSpec == Init /\ [][MidiNext]_vars

\* The HID manager.
HidSpec == Init /\ [][HidNext]_vars

\* The translators.
TranslateSpec == Init /\ [][TranslateNext]_vars

\* The mapping loader alone.
MapperSpec == Init /\ [][MapperNext]_vars

\* The input handlers of the server on the mapper.
ServerSpec == Init /\ [][ServerNext]_vars

(***************************************************************************)
(* Claims on the feedback manager                                          *)
(***************************************************************************)
\* A step that is a call of _onAudioState for a deck the manager has.
AudioStateApplied ==
    /\ feedbackCalls' = feedbackCalls + 1
    /\ lastFeedback'.op = "onAudioState"
    /\ DeckKey(DeckOf(lastFeedback'.state)) \in DOMAIN feedbackState

\* The deck of the message of the step, and the other decks.
AppliedDeck == DeckKey(DeckOf(lastFeedback'.state))

\* C24 (as stated): a state message replaces each top-level field of the
\* deck that it contains with the message's object as a whole; the fields
\* it does not contain, and the other deck, stay unchanged.
C24_FieldsReplacedWhole ==
    [][AudioStateApplied =>
         /\ \A f \in DOMAIN InitialDeck :
               feedbackState'[AppliedDeck][f] =
                   IF f \in DOMAIN lastFeedback'.state
                   THEN lastFeedback'.state[f]
                   ELSE feedbackState[AppliedDeck][f]
         /\ \A k \in DOMAIN feedbackState \ {AppliedDeck} :
               feedbackState'[k] = feedbackState[k]]_vars

\* C24 (amended): vuMeter is replaced by the message's object as a whole;
\* playback, position, sync and tempo take the sub-fields the message
\* carries and keep their other sub-fields; the fields the message does not
\* contain, and the other deck, stay unchanged; a message for a deck the
\* manager does not have changes nothing.
C24_FieldsMerged ==
    [][/\ AudioStateApplied =>
            /\ \A f \in DOMAIN InitialDeck :
                  LET old == feedbackState[AppliedDeck][f]
                      new == feedbackState'[AppliedDeck][f]
                      msg == lastFeedback'.state
                  IN  /\ f \notin DOMAIN msg => new = old
                      /\ f \in DOMAIN msg /\ f = "vuMeter" => new = msg[f]
                      /\ f \in DOMAIN msg /\ f # "vuMeter" =>
                            /\ DOMAIN new = DOMAIN old \cup DOMAIN msg[f]
                            /\ \A g \in DOMAIN msg[f] : new[g] = msg[f][g]
                            /\ \A g \in DOMAIN old \ DOMAIN msg[f] :
                                  new[g] = old[g]
            /\ \A k \in DOMAIN feedbackState \ {AppliedDeck} :
                  feedbackState'[k] = feedbackState[k]
       /\ (/\ feedbackCalls' = feedbackCalls + 1
           /\ lastFeedback'.op = "onAudioState"
           /\ DeckKey(DeckOf(lastFeedback'.state)) \notin DOMAIN feedbackState)
          => feedbackState' = feedbackState]_vars

\* C24 witness: a message with tempo.bpm only has been applied to deck A:
\* bpm is the message's, pitch survived; and a vuMeter with peak only has
\* replaced the one of deck A.
C24_Witness ==
    /\ lastFeedback.op = "onAudioState"
    /\ "tempo" \in DOMAIN lastFeedback.state
    /\ feedbackState.deckA.tempo = [bpm |-> 128, pitch |-> 0]
    /\ feedbackState.deckA.sync = [enabled |-> TRUE, locked |-> TRUE]
    /\ feedbackState.deckA.vuMeter = [peak |-> 5]
    /\ feedbackState.deckB = InitialDeck

\* A step that is a call of the manager.
FeedbackCall == feedbackCalls' = feedbackCalls + 1

\* C25 (as stated): a later emission for a key proceeds only if the time
\* since the last emission for that key exceeds the interval of its class.
C25_ProceedsOnlyIfExceeds ==
    [][FeedbackCall =>
         \A key \in lastFeedback'.updated :
             key \in DOMAIN lastUpdate =>
                 DateNow - lastUpdate[key] > UpdateThrottles[key.class]]_vars

\* C25 (amended): the first emission for a key proceeds; a later one
\* proceeds exactly if the time since the last emission for that key is at
\* least the interval of its class (LED 20 ms, VU meter 16 ms, display
\* 100 ms); an emission sets the key's time, so no two emissions for one
\* key are closer together than the interval.
C25_ProceedsIfAtLeast ==
    [][FeedbackCall =>
         /\ \A key \in lastFeedback'.asked :
               key \in lastFeedback'.updated <=>
                   \/ key \notin DOMAIN lastUpdate
                   \/ DateNow - lastUpdate[key] >= UpdateThrottles[key.class]
         /\ \A key \in lastFeedback'.updated :
               /\ lastUpdate'[key] = DateNow
               /\ key \in DOMAIN lastUpdate =>
                     lastUpdate'[key] - lastUpdate[key]
                         >= UpdateThrottles[key.class]
         /\ \A key \in DOMAIN lastUpdate \ lastFeedback'.updated :
               lastUpdate'[key] = lastUpdate[key]]_vars

\* C25 witness: a call has emitted for an LED exactly 20 ms after the
\* emission before, and has been held back for a VU meter 4 ms after.
C25_Witness ==
    /\ lastFeedback.op = "onAudioState"
    /\ feedbackNow = 20
    /\ LedKey("midi-A", "play", "a") \in lastFeedback.updated
    /\ \E key \in DOMAIN lastUpdate :
          /\ key.class = "vuMeter"
          /\ DateNow - lastUpdate[key] = 4

\* C26: syncDevice emits an update for every LED of both decks, however
\* recently an update for the same key was emitted.
C26_ReplayNotThrottled ==
    lastFeedback.op = "syncDevice" =>
        \A key \in lastFeedback.asked :
            key.class = "led" => key \in lastFeedback.updated

\* The feedback manager alone.
FeedbackSpec == Init /\ [][FeedbackNext]_vars

\* The feedback manager with the time going on.
FairFeedbackSpec ==
    /\ Init
    /\ [][FeedbackNext]_vars
    /\ WF_vars(\E step \in FeedbackSteps : FeedbackTick(step))

\* The state of the LED of a key that the cache asks for.
CachedLed(key) == LedState(key, feedbackState[DeckKey(key.deck)])

\* Every LED that was updated shows the state the cache holds.
LedsMatchCache ==
    \A key \in DOMAIN ledEmitted : ledEmitted[key] = CachedLed(key)

(***************************************************************************)
(* C39 (as claimed): once the state messages stop arriving, the state last *)
(* emitted for each LED key is the state held in the cache; an update the  *)
(* throttle suppressed is not lost for good.                               *)
(***************************************************************************)
C39_EmittedCatchesUp == <>[]LedsMatchCache

\* One WebSocket client: the timers run and the events of the sockets
\* arrive.
ClientSpec ==
    /\ Init
    /\ [][ClientNext]_vars
    /\ WF_vars(Connect)
    /\ WF_vars(ReconnectTimerFires)
    /\ WF_vars(DetachedCloses)

(***************************************************************************)
(* The dispatch loop is re-armed by setImmediate after every turn          *)
(* (ActionRouter.js:152-158): a turn that can run does run, and a turn     *)
(* waiting for its send is resumed.                                        *)
(***************************************************************************)
\* Number of valid route() calls explored under FairSpec.
MaxFairActions == 2

FairRoute(input, threw) ==
    Route(input, threw) /\ Len(routed') <= MaxFairActions

FairNext ==
    \/ \E input \in RouteInputs, threw \in WsSendOutcomes : FairRoute(input, threw)
    \/ \E threw \in WsSendOutcomes : ProcessQueues(threw)
    \/ ProcessQueuesFinally
    \/ ClearQueues
    \/ Pause
    \/ Resume
    \/ WsOpen
    \/ WsClose

FairSpec ==
    /\ Init
    /\ [][FairNext]_vars
    /\ WF_vars(\E threw \in WsSendOutcomes : ProcessQueues(threw))
    /\ WF_vars(ProcessQueuesFinally)

(***************************************************************************)
(* Observations used by the properties                                     *)
(***************************************************************************)
\* The sends of the dispatch loop, in order.
LoopLog == SelectSeq(sendLog, LAMBDA e : e.via = "loop")

SentIds == {sendLog[i].id : i \in DOMAIN sendLog}

QueuedIds == Ids(highQueue) \cup Ids(normalQueue)

\* ids of the actions of priority p that route() put into a queue
AcceptedIds(p) ==
    {id \in DOMAIN routed : routed[id].priority = p /\ routed[id].queued}

\* Every action that route() queued is still queued or has been sent.
NothingDiscarded ==
    (AcceptedIds("high") \cup AcceptedIds("normal")) \subseteq
        (QueuedIds \cup SentIds)

\* This step is a valid route() call with an action of priority p.
RoutedNow(p) ==
    /\ Len(routed') = Len(routed) + 1
    /\ routed'[Len(routed')].priority = p

\* This step is a send of the dispatch loop.
LoopSendsNow ==
    /\ Len(sendLog') = Len(sendLog) + 1
    /\ sendLog'[Len(sendLog')].via = "loop"

\* This step is a clearQueues() call that discards something.
ClearsNow ==
    /\ QueuedIds # {}
    /\ highQueue' = <<>>
    /\ normalQueue' = <<>>
    /\ sendLog' = sendLog

\* pause() has set isProcessing and no turn is in flight to reset it.
Paused == isProcessing /\ loopPc = "scheduled"

(***************************************************************************)
(* C1: when all actions were routed before the dispatch loop sent          *)
(* anything and none arrived later (the scenario has route() calls and     *)
(* dispatch turns only: nothing was discarded by clearQueues()), the loop  *)
(* sends every accepted high action, in routing order, before it sends any *)
(* normal action.                                                          *)
(***************************************************************************)
C1_HighBeforeNormal ==
    (~lateRoute /\ NothingDiscarded) =>
        \A j \in DOMAIN LoopLog :
            /\ LoopLog[j].priority = "normal" =>
                  \A h \in AcceptedIds("high") :
                      \E i \in 1..(j - 1) : LoopLog[i].id = h
            /\ LoopLog[j].priority = "high" =>
                  \A i \in 1..(j - 1) :
                      /\ LoopLog[i].priority = "high"
                      /\ LoopLog[i].id < LoopLog[j].id

\* Two high actions and one normal action were queued (N = 2, M = 1) and all
\* three have been sent by the loop.
C1_Witness ==
    /\ ~lateRoute
    /\ NothingDiscarded
    /\ Len(LoopLog) = 3
    /\ Cardinality(AcceptedIds("high")) = 2
    /\ LoopLog[3].priority = "normal"

(***************************************************************************)
(* C2: a critical action is sent inside its route() call, ahead of every   *)
(* action that is queued at that moment, and is never put into a queue.    *)
(***************************************************************************)
C2_CriticalBypass ==
    [][ /\ RoutedNow("critical") =>
            /\ sendLog' = Append(sendLog, [id |-> Len(routed'),
                                           priority |-> "critical",
                                           via |-> "route"])
            /\ UNCHANGED <<highQueue, normalQueue>>
            /\ QueuedIds \cap SentIds' = {}
        /\ \A i \in DOMAIN highQueue' : highQueue'[i].priority # "critical"
        /\ \A i \in DOMAIN normalQueue' : normalQueue'[i].priority # "critical"
      ]_vars

\* A critical action was just sent while the high queue was full.
C2_Witness ==
    /\ Len(highQueue) = maxQueueSize
    /\ lastRoute.called
    /\ lastRoute.input.priority = "critical"
    /\ sendLog # <<>>
    /\ sendLog[Len(sendLog)].id = Len(routed)
    /\ sendLog[Len(sendLog)].via = "route"

(***************************************************************************)
(* C3: route() of a high (normal) action when the high (normal) queue      *)
(* holds maxQueueSize entries returns false, leaves both queues as they    *)
(* are and adds exactly 1 to droppedActions.                               *)
(***************************************************************************)
C3_OverflowDropsNew ==
    [][ /\ (RoutedNow("high") /\ Len(highQueue) >= maxQueueSize) =>
            /\ lastRoute'.result = FALSE
            /\ UNCHANGED <<highQueue, normalQueue>>
            /\ stats'.droppedActions = stats.droppedActions + 1
        /\ (RoutedNow("normal") /\ Len(normalQueue) >= maxQueueSize) =>
            /\ lastRoute'.result = FALSE
            /\ UNCHANGED <<highQueue, normalQueue>>
            /\ stats'.droppedActions = stats.droppedActions + 1
      ]_vars

\* A high action was just refused on a full high queue.
C3_Witness ==
    /\ Len(highQueue) = maxQueueSize
    /\ stats.droppedActions = 1
    /\ lastRoute.called
    /\ lastRoute.input.priority = "high"
    /\ lastRoute.result = FALSE
    /\ Len(routed) \notin Ids(highQueue)

(***************************************************************************)
(* C4: two actions of the same queued priority are sent by the dispatch    *)
(* loop in the order in which route() accepted them.                       *)
(***************************************************************************)
C4_FifoPerPriority ==
    \A i, j \in DOMAIN LoopLog :
        (i < j /\ LoopLog[i].priority = LoopLog[j].priority) =>
            LoopLog[i].id < LoopLog[j].id

\* Two high actions sent by the loop, with a critical send and a later
\* route() call interleaved.
C4_Witness ==
    /\ lateRoute
    /\ \E i, j, k \in DOMAIN sendLog :
          /\ i < j /\ j < k
          /\ sendLog[i].via = "loop" /\ sendLog[i].priority = "high"
          /\ sendLog[j].via = "route"
          /\ sendLog[k].via = "loop" /\ sendLog[k].priority = "high"

C6_QueuedUntilConnected ==
    [][ ~connected => ~LoopSendsNow ]_vars

C8_InvalidRejected ==
    [][ ( /\ lastRoute' # lastRoute
          /\ \/ lastRoute'.input.isNull
             \/ lastRoute'.input.target = Missing
             \/ lastRoute'.input.priority = Missing ) =>
            /\ lastRoute'.result = FALSE
            /\ UNCHANGED <<highQueue, normalQueue, stats, sendLog, routed>>
      ]_vars

\* An action without target was just refused while actions are queued.
C8_Witness ==
    /\ lastRoute.called
    /\ ~lastRoute.input.isNull
    /\ lastRoute.input.target = Missing
    /\ lastRoute.result = FALSE
    /\ QueuedIds # {}
    /\ stats.totalActions = Len(routed)

(***************************************************************************)
(* Observations on the handled 'cc' messages                               *)
(***************************************************************************)
\* Messages i and j come from the same device and channel.
SameSource(i, j) ==
    /\ ccLog[i].msg.deviceId = ccLog[j].msg.deviceId
    /\ ccLog[i].msg.channel = ccLog[j].msg.channel

\* Message i is a CC of an MSB controller C and message j, later, the CC of
\* controller C+32 of the same device and channel.
MsbThenLsb(i, j) ==
    /\ i < j
    /\ ccLog[i].msg.controller \in 0..31
    /\ ccLog[j].msg.controller = ccLog[i].msg.controller + 32
    /\ SameSource(i, j)

\* Message j follows message i: between them the same device and channel
\* sent neither controller of the pair.
NothingBetween(i, j) ==
    \A k \in (i + 1)..(j - 1) :
        ~( /\ SameSource(i, k)
           /\ ccLog[k].msg.controller \in
                 {ccLog[i].msg.controller, ccLog[j].msg.controller} )

\* Time between messages i and j.
Elapsed(i, j) == ccLog[j].msg.timestamp - ccLog[i].msg.timestamp

IsCombined(e) == "highRes" \in DOMAIN e

(***************************************************************************)
(* C9: CC(C, msb) followed on the same device and channel, within the      *)
(* pairing window, by CC(C+32, lsb) gives exactly one combined event, with *)
(* controller C, value = value14bit = msb*128+lsb in 0..16383, maxValue    *)
(* 16383 and normalized = value14bit/16383 (0 for 0,0 and 1 for 127,127).  *)
(***************************************************************************)
C9_PairCombines ==
    \A i, j \in DOMAIN ccLog :
        ( /\ MsbThenLsb(i, j)
          /\ NothingBetween(i, j)
          /\ Elapsed(i, j) < highResCCTimeout ) =>
            LET msb == ccLog[i].msg.value
                lsb == ccLog[j].msg.value
                ev == ccLog[j].events
            IN  /\ \A n \in DOMAIN ccLog[i].events :
                      ~IsCombined(ccLog[i].events[n])
                /\ Len(ev) = 1
                /\ IsCombined(ev[1])
                /\ ev[1].highRes
                /\ ev[1].controller = ccLog[i].msg.controller
                /\ ev[1].value = msb * 128 + lsb
                /\ ev[1].value14bit = msb * 128 + lsb
                /\ ev[1].value14bit \in 0..16383
                /\ ev[1].maxValue = 16383
                /\ ev[1].normalized = [num |-> msb * 128 + lsb, den |-> 16383]
                /\ (msb = 0 /\ lsb = 0) => ev[1].normalized.num = 0
                /\ (msb = 127 /\ lsb = 127) =>
                      ev[1].normalized.num = ev[1].normalized.den

\* MSB 127 and, 25 ms later, LSB 0 of the same channel, with a message of
\* another channel between them.
C9_Witness ==
    /\ Len(ccLog) = 3
    /\ MsbThenLsb(1, 3)
    /\ ~SameSource(1, 2)
    /\ ccLog[1].msg.value = 127
    /\ ccLog[3].msg.value = 0
    /\ Elapsed(1, 3) > 0
    /\ Elapsed(1, 3) < highResCCTimeout
    /\ IsCombined(ccLog[3].events[1])

(***************************************************************************)
(* C10: when the LSB CC (C+32) arrives 50 ms or more after the MSB CC (C)  *)
(* of the same device and channel, no combined event is produced: the LSB  *)
(* is emitted as a plain CC event with its own controller and value.       *)
(***************************************************************************)
C10_LateLsbIsPlain ==
    \A i, j \in DOMAIN ccLog :
        ( /\ MsbThenLsb(i, j)
          /\ NothingBetween(i, j)
          /\ Elapsed(i, j) >= highResCCTimeout ) =>
            LET ev == ccLog[j].events
            IN  /\ Len(ev) = 1
                /\ ~IsCombined(ev[1])
                /\ ev[1].type = "cc"
                /\ ev[1].controller = ccLog[j].msg.controller
                /\ ev[1].value = ccLog[j].msg.value
                /\ ev[1] = ccLog[j].msg

\* An LSB that came exactly 50 ms after its MSB.
C10_Witness ==
    \E i, j \in DOMAIN ccLog :
        /\ MsbThenLsb(i, j)
        /\ NothingBetween(i, j)
        /\ Elapsed(i, j) = highResCCTimeout
        /\ ~IsCombined(ccLog[j].events[1])

(***************************************************************************)
(* C11: two CCs of an MSB controller C from the same device and channel    *)
(* with no CC of C+32 between them, then the CC of C+32 within the window  *)
(* of the second: the one combined event carries the value of the second   *)
(* MSB.  A pending entry is always the last MSB CC its device sent for     *)
(* that channel and controller (one entry per key, last MSB wins).         *)
(***************************************************************************)
\* Message i is the last CC of controller c that device d sent on channel ch.
LastMsbOf(d, ch, c, i) ==
    /\ ccLog[i].msg.deviceId = d
    /\ ccLog[i].msg.channel = ch
    /\ ccLog[i].msg.controller = c
    /\ \A k \in (i + 1)..Len(ccLog) :
          ~( /\ ccLog[k].msg.deviceId = d
             /\ ccLog[k].msg.channel = ch
             /\ ccLog[k].msg.controller = c )

C11_LastMsbWins ==
    /\ \A i, j, k \in DOMAIN ccLog :
          ( /\ i < j
            /\ SameSource(i, j)
            /\ ccLog[i].msg.controller = ccLog[j].msg.controller
            /\ MsbThenLsb(j, k)
            /\ NothingBetween(i, j)
            /\ \A n \in (i + 1)..(j - 1) :
                  ~(SameSource(i, n) /\ MsbThenLsb(i, n))
            /\ NothingBetween(j, k)
            /\ Elapsed(j, k) < highResCCTimeout ) =>
              /\ Len(ccLog[k].events) = 1
              /\ IsCombined(ccLog[k].events[1])
              /\ ccLog[k].events[1].msb = ccLog[j].msg.value
              /\ ccLog[k].events[1].value =
                    ccLog[j].msg.value * 128 + ccLog[k].msg.value
    /\ \A d \in DOMAIN highResCCState :
          \A key \in DOMAIN highResCCState[d] :
              \E i \in DOMAIN ccLog :
                  /\ LastMsbOf(d, key[1], key[2], i)
                  /\ highResCCState[d][key].value = ccLog[i].msg.value
                  /\ highResCCState[d][key].timestamp = ccLog[i].msg.timestamp

\* MSB 0, then MSB 127 of the same controller, then its LSB 25 ms later:
\* combined with 127.
C11_Witness ==
    /\ Len(ccLog) = 3
    /\ SameSource(1, 2)
    /\ ccLog[1].msg.controller = ccLog[2].msg.controller
    /\ ccLog[1].msg.value = 0
    /\ ccLog[2].msg.value = 127
    /\ MsbThenLsb(2, 3)
    /\ Elapsed(2, 3) > 0
    /\ Elapsed(2, 3) < highResCCTimeout
    /\ IsCombined(ccLog[3].events[1])
    /\ ccLog[3].events[1].msb = 127

(***************************************************************************)
(* C12 (as claimed): a CC of a controller in 0..31 emits no input event    *)
(* when it arrives.                                                        *)
(***************************************************************************)
C12_MsbEmitsNothing ==
    \A i \in DOMAIN ccLog :
        ccLog[i].msg.controller \in 0..31 => ccLog[i].events = <<>>

(***************************************************************************)
(* C12 (amended): a CC of a controller in 0..31 is emitted when it arrives *)
(* as one plain 7-bit CC event and is stored as the pending MSB of its     *)
(* channel and controller; a combined event is only ever built from a      *)
(* pending MSB younger than the pairing window, so an MSB whose LSB did    *)
(* not come within the window never appears in a combined event.           *)
(***************************************************************************)
\* This step handles one 'cc' message.
HandlesCC == Len(ccLog') = Len(ccLog) + 1

C12_MsbEmittedPlain ==
    [][ HandlesCC =>
          LET e == ccLog'[Len(ccLog')]
              d == e.msg.deviceId
          IN  /\ e.msg.controller \in 0..31 =>
                    /\ e.events = <<e.msg>>
                    /\ ~IsCombined(e.events[1])
                    /\ CCKey(e.msg.channel, e.msg.controller) \in
                          DOMAIN highResCCState'[d]
                    /\ highResCCState'[d][CCKey(e.msg.channel,
                                                 e.msg.controller)].value
                          = e.msg.value
              /\ IsCombined(e.events[1]) =>
                    LET key == CCKey(e.msg.channel, e.events[1].controller)
                    IN  /\ d \in DOMAIN highResCCState
                        /\ key \in DOMAIN highResCCState[d]
                        /\ now - highResCCState[d][key].timestamp
                              < highResCCTimeout
                        /\ e.events[1].msb = highResCCState[d][key].value
      ]_vars

\* An MSB was emitted as a plain event on arrival; its LSB came 50 ms or more
\* later and was emitted plain as well, the stale MSB is still stored.
C12_Witness ==
    \E i, j \in DOMAIN ccLog :
        /\ MsbThenLsb(i, j)
        /\ j = Len(ccLog)
        /\ Elapsed(i, j) >= highResCCTimeout
        /\ ccLog[i].events = <<ccLog[i].msg>>
        /\ ccLog[j].events = <<ccLog[j].msg>>
        /\ CCKey(ccLog[i].msg.channel, ccLog[i].msg.controller) \in
              DOMAIN highResCCState[ccLog[i].msg.deviceId]

(***************************************************************************)
(* Observations on the polls of the HID devices                            *)
(***************************************************************************)
\* The events that the i-th successful poll of device d emitted for control c.
EventsFor(d, i, c) ==
    {n \in DOMAIN hidLog[d][i].events : hidLog[d][i].events[n].control = c}

\* The report bytes that a control's descriptor refers to.
ReferencedBytes(controlConfig) ==
    IF "bytes" \in DOMAIN controlConfig
    THEN {controlConfig.bytes[i] : i \in DOMAIN controlConfig.bytes}
    ELSE {controlConfig.byte}

\* The report is too short to hold a byte the descriptor refers to.
TooShortFor(data, controlConfig) ==
    \E b \in ReferencedBytes(controlConfig) : b >= Len(data)

(***************************************************************************)
(* C13 (as claimed): when two consecutive successful polls of a device     *)
(* read the same report bytes, the second emits no input event; also for   *)
(* the first two polls after the device is connected.                      *)
(***************************************************************************)
C13_SameReportNoEvents ==
    \A d \in HidDeviceIds :
        \A i \in 1..(Len(hidLog[d]) - 1) :
            hidLog[d][i].data = hidLog[d][i + 1].data =>
                hidLog[d][i + 1].events = <<>>

(***************************************************************************)
(* C14 (as claimed): in every successful poll, each control of the parsed  *)
(* state whose value differs from its value in the poll just before (or    *)
(* that the poll just before did not have) gets exactly one input event;   *)
(* a press in one poll and the release in the next give a press event and  *)
(* then a release event.                                                   *)
(***************************************************************************)
C14_OneEventPerChange ==
    \A d \in HidDeviceIds :
        \A i \in 2..Len(hidLog[d]) :
            \A c \in DOMAIN hidLog[d][i].parsed :
                ( \/ c \notin DOMAIN hidLog[d][i - 1].parsed
                  \/ hidLog[d][i - 1].parsed[c].value
                        # hidLog[d][i].parsed[c].value ) =>
                    Cardinality(EventsFor(d, i, c)) = 1

(***************************************************************************)
(* C15 (as claimed): the first successful poll of a device after it is     *)
(* connected emits one input event for every control in the parsed state.  *)
(***************************************************************************)
C15_FirstPollEmitsAll ==
    \A d \in HidDeviceIds :
        Len(hidLog[d]) >= 1 =>
            \A c \in DOMAIN hidLog[d][1].parsed :
                Cardinality(EventsFor(d, 1, c)) = 1

(***************************************************************************)
(* C16 (as claimed): a control whose descriptor refers to a byte that the  *)
(* report is too short to hold is left out of the parsed state of that     *)
(* poll (button, single-byte and multi-byte controls alike) and gets no    *)
(* event in that poll.                                                     *)
(***************************************************************************)
C16_ShortReportOmitsControl ==
    \A d \in HidDeviceIds :
        \A i \in DOMAIN hidLog[d] :
            \A c \in DOMAIN ParsingControls :
                TooShortFor(hidLog[d][i].data, ParsingControls[c]) =>
                    /\ c \notin DOMAIN hidLog[d][i].parsed
                    /\ EventsFor(d, i, c) = {}

(***************************************************************************)
(* Observations on the last translate() call                               *)
(***************************************************************************)
\* The last call was made on the translator of this protocol.
Translated(protocol) == translated.protocol = protocol

\* The last call returned an Action.
ReturnedAction == translated.result # <<>>

\* The midi pattern of mapping k is the (type, channel, note or controller)
\* of event e.
PatternMatches(k, e) ==
    /\ "midi" \in DOMAIN MidiMappings[k]
    /\ MidiMappings[k].midi.type = e.type
    /\ MidiMappings[k].midi.channel = e.channel
    /\ IF "note" \in DOMAIN e
       THEN /\ "note" \in DOMAIN MidiMappings[k].midi
            /\ MidiMappings[k].midi.note = e.note
       ELSE /\ "note" \notin DOMAIN MidiMappings[k].midi
            /\ "controller" \in DOMAIN e
            /\ "controller" \in DOMAIN MidiMappings[k].midi
            /\ MidiMappings[k].midi.controller = e.controller

\* Mapping k is the one event e is translated by: the last declared mapping
\* with e's pattern.
MatchedBy(k, e) ==
    \E i \in DOMAIN MidiMappingOrder :
        /\ MidiMappingOrder[i] = k
        /\ PatternMatches(k, e)
        /\ \A j \in (i + 1)..Len(MidiMappingOrder) :
              ~PatternMatches(MidiMappingOrder[j], e)

(***************************************************************************)
(* C17: a note-on event whose (type, channel, note) is the midi pattern of *)
(* the mapping it is translated by, that mapping being of action type      *)
(* transport, gives one Action with the mapping's type, command, deck,     *)
(* target and priority and with value = (velocity > 0) as a boolean; note  *)
(* 11 on channel 0 with velocity 127 gives play / deck A / audio / high    *)
(* with value true.                                                        *)
(***************************************************************************)
C17_TransportNoteOnBoolean ==
    (Translated("midi") /\ translated.event[1].type = "noteon") =>
        LET e == translated.event[1]
        IN  /\ \A k \in DOMAIN MidiMappings :
                  (MatchedBy(k, e)
                   /\ MidiMappings[k].action.type = "transport") =>
                      /\ Len(translated.result) = 1
                      /\ translated.result[1].type = "transport"
                      /\ translated.result[1].command
                            = MidiMappings[k].action.command
                      /\ translated.result[1].deck
                            = MidiMappings[k].action.deck
                      /\ translated.result[1].target = MidiMappings[k].target
                      /\ translated.result[1].priority
                            = MidiMappings[k].priority
                      /\ translated.result[1].value = JsBool(e.velocity > 0)
            /\ (e.channel = 0 /\ e.note = 11 /\ e.velocity = 127) =>
                  /\ Len(translated.result) = 1
                  /\ translated.result[1].command = "play"
                  /\ translated.result[1].deck = "A"
                  /\ translated.result[1].target = "audio"
                  /\ translated.result[1].priority = "high"
                  /\ translated.result[1].value = JsBool(TRUE)

\* Note 11 on channel 0 with velocity 127 was translated to play with the
\* value true.
C17_Witness ==
    /\ Translated("midi")
    /\ translated.event[1].type = "noteon"
    /\ translated.event[1].channel = 0
    /\ translated.event[1].note = 11
    /\ translated.event[1].velocity = 127
    /\ ReturnedAction
    /\ translated.result[1].type = "transport"
    /\ translated.result[1].command = "play"
    /\ translated.result[1].value = JsBool(TRUE)

(***************************************************************************)
(* Observations for the value of an Action                                 *)
(***************************************************************************)
\* The action section of the mapping the last call was translated by.
MatchedAction ==
    IF Translated("midi")
    THEN MidiMappings[CHOOSE k \in DOMAIN MidiMappings :
                          MatchedBy(k, translated.event[1])].action
    ELSE HidMappings[translated.event[1].control].action

\* The context of the value expression: value and velocity of a MIDI event
\* (0 when absent), value and delta of a HID event with the modifier flags.
ExpressionResult(expression) ==
    LET e == translated.event[1]
    IN  IF Translated("midi")
        THEN LET value ==
                    IF "value" \in DOMAIN e /\ e.value # 0 THEN JsNum(e.value)
                    ELSE IF "velocity" \in DOMAIN e THEN JsNum(e.velocity)
                    ELSE JsNum(0)
                 velocity == IF "velocity" \in DOMAIN e THEN JsNum(e.velocity)
                             ELSE JsNum(0)
                 r == EvalJs(expression, value, velocity, JsUndefined, <<>>)
             IN  IF r.threw THEN value ELSE r.result
        ELSE LET r == EvalJs(expression, e.value, JsUndefined, e.delta,
                             modifierState)
             IN  IF r.threw THEN e.value ELSE r.result

\* The last call translated a note-on event by a transport mapping.
TransportNoteOn ==
    /\ Translated("midi")
    /\ translated.event[1].type = "noteon"
    /\ MatchedAction.type = "transport"

C19_TargetAndPriorityOfMapping ==
    ReturnedAction =>
        LET e == translated.event[1]
            a == translated.result[1]
            mapping ==
                IF Translated("midi")
                THEN MidiMappings[CHOOSE k \in DOMAIN MidiMappings :
                                      MatchedBy(k, e)]
                ELSE HidMappings[e.control]
        IN  /\ a.target = mapping.target
            /\ a.priority = mapping.priority
            /\ a.target \in {"audio", "app", "ui"}
            /\ a.priority \in {"critical", "high", "normal"}

(***************************************************************************)
(* Observations on failures in the last translate() call                   *)
(***************************************************************************)
\* The last call was translated by a mapping with an action section.
TranslatedByMapping ==
    IF Translated("midi")
    THEN \E k \in DOMAIN MidiMappings : MatchedBy(k, translated.event[1])
    ELSE /\ Translated("hid")
         /\ translated.event[1].control \in DOMAIN HidMappings
         /\ "action" \in DOMAIN HidMappings[translated.event[1].control]

\* The evaluation of the expression raises an exception in the context of
\* the last call.
Throws(expression) ==
    LET e == translated.event[1]
    IN  IF Translated("midi")
        THEN EvalJs(expression, JsUndefined, JsUndefined, JsUndefined,
                    <<>>).threw
        ELSE EvalJs(expression, e.value, JsUndefined, e.delta,
                    translated.mods).threw

\* The MIDI translator evaluated the mapping's value expression (the mapping
\* has no static value) or its direction expression, and the evaluation
\* failed.
MidiExpressionFailed(f) ==
    /\ Translated("midi")
    /\ TranslatedByMapping
    /\ f \in DOMAIN MatchedAction
    /\ f = "valueExpression" => "value" \notin DOMAIN MatchedAction
    /\ Throws(MatchedAction[f])

\* The raw value of a MIDI event: value || velocity || 0.
MidiRawValue ==
    LET e == translated.event[1]
    IN  IF "value" \in DOMAIN e /\ e.value # 0 THEN JsNum(e.value)
        ELSE IF "velocity" \in DOMAIN e THEN JsNum(e.velocity)
        ELSE JsNum(0)

\* The HID control of the last call has a mapping with an action section
\* but no parsing descriptor.
NoParsingDescriptor ==
    /\ Translated("hid")
    /\ TranslatedByMapping
    /\ translated.event[1].control \notin DOMAIN HidParsingControls

\* The HID mapping of the last call has a condition whose evaluation failed.
ConditionFailed ==
    /\ Translated("hid")
    /\ TranslatedByMapping
    /\ ~NoParsingDescriptor
    /\ "condition" \in DOMAIN HidMappings[translated.event[1].control]
    /\ Throws(HidMappings[translated.event[1].control].condition)

\* The HID translator evaluated expression f of the mapping (mode for a
\* delta control, direction for an encoder, valueExpression for any) while
\* building the action it returned, and the evaluation failed.
HidExpressionFailed(f) ==
    /\ Translated("hid")
    /\ TranslatedByMapping
    /\ ReturnedAction
    /\ f \in DOMAIN MatchedAction
    /\ f = "mode" =>
          HidParsingControls[translated.event[1].control].type = "delta"
    /\ f = "direction" =>
          HidParsingControls[translated.event[1].control].type = "encoder"
    /\ Throws(MatchedAction[f])

\* The field of the returned action that expression f gives.
ResultField(f) ==
    IF f = "valueExpression" THEN translated.result[1].value
    ELSE IF f = "mode" THEN translated.result[1].mode
    ELSE translated.result[1].direction

\* C27 (as stated): when the evaluation of a mapping's expression fails, or
\* the HID control of the event has no parsing descriptor, translate
\* returns null for that event.
C27_NullOnFailure ==
    ( \/ \E f \in {"valueExpression", "direction"} : MidiExpressionFailed(f)
      \/ \E f \in {"valueExpression", "direction", "mode"} :
            HidExpressionFailed(f)
      \/ ConditionFailed
      \/ NoParsingDescriptor )
    => translated.result = <<>>

\* C27 (amended): when the evaluation of a value, direction or mode
\* expression fails, the event's raw value stands in for the result and
\* translate still returns the action (a transport note-on keeps
\* velocity > 0 as its value); when the evaluation of a HID mapping's
\* condition fails, or the HID control has no parsing descriptor,
\* translate returns null; translate returns null or one action, never an
\* exception.
C27_FallbackOnFailure ==
    /\ \A f \in {"valueExpression", "direction"} :
          MidiExpressionFailed(f) =>
              /\ ReturnedAction
              /\ ~(f = "valueExpression" /\ TransportNoteOn) =>
                    ResultField(f) = MidiRawValue
    /\ \A f \in {"valueExpression", "direction", "mode"} :
          HidExpressionFailed(f) =>
              ResultField(f) = translated.event[1].value
    /\ ConditionFailed => translated.result = <<>>
    /\ NoParsingDescriptor => translated.result = <<>>
    /\ translated.result = <<>> \/ Len(translated.result) = 1

\* C27 witness: a CC translated by the mapping with the expression that
\* fails gave an action with the raw value 100.
C27_Witness ==
    /\ MidiExpressionFailed("valueExpression")
    /\ ReturnedAction
    /\ translated.event[1].value = 100
    /\ translated.result[1].value = JsNum(100)

(***************************************************************************)
(* Observations on the router's statistics                                 *)
(***************************************************************************)
\* The number of route() calls so far that were refused on a full queue of
\* this priority.
OverflowRejections(p) ==
    Cardinality({i \in DOMAIN routed :
                    routed[i].priority = p /\ ~routed[i].queued})

\* The dropped count that the statistics report for a priority: the report
\* has the one counter droppedActions, whatever the priority.
ReportedDropped(p) == GetStats.droppedActions

\* C28: at every moment the statistics report queue sizes equal to the
\* lengths of the high and the normal queue, a total equal to the number of
\* valid route() calls so far, and a dropped count per priority equal to
\* the number of overflow rejections of that priority.
C28_StatsExact ==
    /\ GetStats.queueSizes.high = Len(highQueue)
    /\ GetStats.queueSizes.normal = Len(normalQueue)
    /\ GetStats.totalActions = Len(routed)
    /\ \A p \in {"high", "normal"} : ReportedDropped(p) = OverflowRejections(p)

\* C29: in every reachable state the high queue and the normal queue each
\* hold at most maxQueueSize actions, under any interleaving of route()
\* calls, dispatch turns, pause/resume and clearQueues.
C29_QueuesBounded ==
    /\ Len(highQueue) <= maxQueueSize
    /\ Len(normalQueue) <= maxQueueSize

\* C29 witness: a normal action was just refused on a full normal queue.
C29_Witness ==
    /\ Len(normalQueue) = maxQueueSize
    /\ lastRoute.called
    /\ lastRoute.input.priority = "normal"
    /\ lastRoute.result = FALSE
    /\ OverflowRejections("normal") = 1

(***************************************************************************)
(* Claims on the read errors of the HID manager                            *)
(***************************************************************************)
\* C30: when a poll's read fails with an error that is not a no-data or
\* timeout condition, the device is disconnected: its polling stops and it
\* is removed from the connected-device map (with a device:disconnected
\* event), while the other devices keep polling.
C30_ReadErrorDisconnects ==
    \A d \in readFailed :
        /\ d \notin pollingIntervals
        /\ d \notin DOMAIN devices
        /\ d \notin knownDevices

(***************************************************************************)
(* Claims on the modifier state of the HID translator                      *)
(***************************************************************************)
\* The last call was for a control declared type modifier in the parsing
\* descriptor.
ModifierEvent ==
    /\ Translated("hid")
    /\ translated.event[1].control \in DOMAIN HidParsingControls
    /\ HidParsingControls[translated.event[1].control].type = "modifier"

\* C31: every event for a control declared type modifier in the parsing
\* descriptor sets that control's modifier state to (value > 0), whether
\* or not the control has an entry in the mappings; such an event returns
\* no Action unless the control is also mapped to an action.
C31_ModifierAlwaysUpdated ==
    ModifierEvent =>
        LET e == translated.event[1]
        IN  /\ e.control \in DOMAIN translated.mods
            /\ translated.mods[e.control] = GreaterThanZero(e.value)
            /\ ReturnedAction =>
                  /\ e.control \in DOMAIN HidMappings
                  /\ "action" \in DOMAIN HidMappings[e.control]

(***************************************************************************)
(* Claims on the pending MSB entries of the 14-bit reconstruction          *)
(***************************************************************************)
\* The last 'cc' message was handled at the present time: no time has
\* passed since the call returned.
JustHandledCC ==
    /\ ccLog # <<>>
    /\ ccLog[Len(ccLog)].msg.timestamp = now

\* C32: after every call of the 14-bit reconstruction with any CC event
\* (MSB range, LSB range or controller >= 64), the device's pairing state
\* holds no pending MSB entry older than the pairing window.
C32_NoStaleEntryAfterCall ==
    JustHandledCC =>
        LET deviceState == DeviceState(ccLog[Len(ccLog)].msg.deviceId)
        IN  \A k \in DOMAIN deviceState :
                now - deviceState[k].timestamp <= highResCCTimeout

(***************************************************************************)
(* Claims on the position of a delta-typed HID control                     *)
(***************************************************************************)
\* The raw value of the event that the j-th successful poll of device d
\* emitted for control c, 0 when it emitted none.
RawOfEvent(d, j, c) ==
    IF EventsFor(d, j, c) = {} THEN 0
    ELSE LET n == CHOOSE x \in EventsFor(d, j, c) : TRUE
         IN  IF hidLog[d][j].events[n].delta.k = "number"
             THEN hidLog[d][j].events[n].delta.n ELSE 0

\* The sum of the raw values of the events emitted for control c of device
\* d in its first i successful polls.
RECURSIVE SumOfRaw(_, _, _)
SumOfRaw(d, i, c) ==
    IF i = 0 THEN 0 ELSE SumOfRaw(d, i - 1, c) + RawOfEvent(d, i, c)

\* C33: for a delta-typed HID control, each emitted event has delta equal
\* to the raw value read in that poll and value equal to the running
\* absolute position, which is the sum of the raw values of all events
\* emitted so far for that control on that device.
C33_PositionIsSumOfDeltas ==
    \A d \in HidDeviceIds :
        \A i \in DOMAIN hidLog[d] :
            \A n \in DOMAIN hidLog[d][i].events :
                LET e == hidLog[d][i].events[n]
                IN  e.type = "delta" =>
                        /\ e.delta = hidLog[d][i].parsed[e.control].value
                        /\ e.value = JsNum(SumOfRaw(d, i, e.control))

(***************************************************************************)
(* Claims on pause() and resume()                                          *)
(***************************************************************************)
\* A step in which the dispatch loop passes a queued action to the send.
LoopSends ==
    /\ Len(sendLog') = Len(sendLog) + 1
    /\ sendLog'[Len(sendLog')].via = "loop"

\* C34: between a call to pause() and the next call to resume(), the
\* dispatch loop passes no queued action to the downstream send, also when
\* pause() is called while a dispatch turn is waiting for a send to
\* complete.
C34_NoDispatchWhilePaused ==
    [][paused => ~LoopSends]_vars

(***************************************************************************)
(* Claims on disconnect() of the WebSocket client                          *)
(***************************************************************************)
\* C35: after disconnect() has been called on a WebSocket client, no
\* reconnect timer is pending and no new connection attempt is made until
\* connect() is called again, also when the socket's close event is
\* delivered after disconnect() has returned.  (connect() is called by the
\* server once, at its start; after disconnect() only a reconnect timer
\* calls it.)
C35_NoReconnectAfterDisconnect ==
    disconnectCalled =>
        /\ timers = {}
        /\ reconnectTimer = 0
        /\ ws # "connecting"

(***************************************************************************)
(* C36 (as claimed): between a device's connect and its disconnect,        *)
(* getTranslator gives every input event of the device the same translator *)
(* object, also when several events arrive before the first translator has *)
(* been built; so the modifier state one event sets is seen by every later *)
(* event.                                                                  *)
(***************************************************************************)
C36_SameTranslatorInstance ==
    \A p, q \in DOMAIN handlers :
        (/\ handlers[p].deviceId = handlers[q].deviceId
         /\ handlers[p].translator # <<>>
         /\ handlers[q].translator # <<>>) =>
            handlers[p].translator[1].instance
                = handlers[q].translator[1].instance

(***************************************************************************)
(* C37 (as claimed): once 'device:disconnected' has been handled, the      *)
(* mapper holds no translator for the device id until the device connects  *)
(* again, also when an input event of the device was waiting for its       *)
(* translator at the time of the disconnect.                               *)
(***************************************************************************)
C37_NoTranslatorAfterDisconnect ==
    running => DOMAIN translators \subseteq DOMAIN connectedDevices

(***************************************************************************)
(* C40 (as claimed): the translator that handles the events of a device is *)
(* built from the mapping the device was connected with; a HID device that *)
(* was matched to its mapping by vendor and product id is translated by an *)
(* HID translator of that mapping.                                         *)
(***************************************************************************)
C40_TranslatorOfConnectMapping ==
    \A h \in DOMAIN handlers :
        (/\ handlers[h].translator # <<>>
         /\ handlers[h].deviceId \in DOMAIN connectedDevices) =>
            /\ handlers[h].translator[1].mapping
                   = connectedDevices[handlers[h].deviceId]
            /\ handlers[h].deviceId \in DOMAIN HidDeviceInfo =>
                   handlers[h].translator[1].class = "HIDTranslator"

(***************************************************************************)
(* C38 (as claimed): after any sequence of connectDevice, disconnectDevice *)
(* and device errors, a close that throws included, a device id is in      *)
(* this.devices exactly when it has a polling timer, and the known paths   *)
(* are the paths of the devices in this.devices (a device and its path     *)
(* carry the same name here).                                              *)
(***************************************************************************)
C38_MapsAgree ==
    /\ DOMAIN devices = pollingIntervals
    /\ knownDevices = DOMAIN devices

(***************************************************************************)
(* Observations on the mapper                                              *)
(***************************************************************************)
\* Name a is part of name b, letter case aside.
PartOf(a, b) == Includes(ToLowerCase(Chars[b]), ToLowerCase(Chars[a]))

\* No mapping in the cache has the device's name as its key or matches it
\* in part, and config/devices has no valid file of that name.
NoSpecificMapping(deviceName) ==
    /\ \A i \in DOMAIN deviceMappings :
          /\ deviceMappings[i] # deviceName
          /\ ~PartOf(deviceMappings[i], deviceName)
          /\ ~PartOf(deviceName, deviceMappings[i])
    /\ \/ deviceName \notin configDir
       \/ MappingFiles[deviceName].device.protocol \notin {"midi", "hid"}

\* config/devices has a valid generic-midi.json.
GenericAvailable ==
    /\ "generic-midi" \in configDir
    /\ MappingFiles["generic-midi"].device.protocol \in {"midi", "hid"}

\* This step is a call getTranslator(deviceId, deviceName) for a device
\* that has no translator yet.
FirstGetTranslator(deviceId, deviceName) ==
    /\ deviceId \notin DOMAIN translators
    /\ lastCall'.op = "getTranslator"
    /\ lastCall'.deviceId = deviceId
    /\ lastCall'.deviceName = deviceName
    /\ \/ lastCall' # lastCall
       \/ translators' # translators

(***************************************************************************)
(* C20: when getTranslator is called for a device that has no translator   *)
(* yet, whose name matches no specific mapping (none of the loaded         *)
(* mappings, and no valid mapping file of that name), and generic-midi is  *)
(* available, the call does not fail: it returns a translator built from   *)
(* the generic-midi mapping, which is the translator kept for the device.  *)
(***************************************************************************)
C20_GenericFallback ==
    [][\A deviceId \in MapperDeviceIds, deviceName \in DeviceNames :
          (/\ FirstGetTranslator(deviceId, deviceName)
           /\ NoSpecificMapping(deviceName)
           /\ GenericAvailable) =>
              /\ ~lastCall'.threw
              /\ Len(lastCall'.translator) = 1
              /\ lastCall'.translator[1].mapping = "generic-midi"
              /\ deviceId \in DOMAIN translators'
              /\ translators'[deviceId] = lastCall'.translator[1]]_vars

\* A specific mapping (ddj) is loaded, and the device LK, which matches
\* none, was given the translator of generic-midi.
C20_Witness ==
    /\ lastCall.op = "getTranslator"
    /\ lastCall.deviceName = "LK"
    /\ ~lastCall.threw
    /\ lastCall.translator[1].mapping = "generic-midi"
    /\ lastCall.deviceId \in DOMAIN translators
    /\ translators[lastCall.deviceId].mapping = "generic-midi"
    /\ MapHas(deviceMappings, "ddj")

(***************************************************************************)
(* Observations on validation                                              *)
(***************************************************************************)
\* The keys of the file's mappings that are control mappings (the keys
\* that begin with an underscore are comment fields).
ControlKeys(file) ==
    DOMAIN MappingFiles[file].mappings \ {"_comment"}

\* The file fails validation: no device name or protocol, or a control
\* mapping with no action, or with a target or a priority outside the
\* allowed ones.
FailsValidation(file) ==
    \/ "name" \notin DOMAIN MappingFiles[file].device
    \/ "protocol" \notin DOMAIN MappingFiles[file].device
    \/ MappingFiles[file].device.protocol \notin {"midi", "hid"}
    \/ \E key \in ControlKeys(file) :
          \/ "action" \notin DOMAIN MappingFiles[file].mappings[key]
          \/ MappingFiles[file].mappings[key].target
                \notin {"audio", "app", "ui"}
          \/ MappingFiles[file].mappings[key].priority
                \notin {"critical", "high", "normal"}

(***************************************************************************)
(* C21: a mapping that fails validation is never in the mapper's cache and *)
(* no translator is ever built from it; loadMapping of such a file raises  *)
(* an error, and loadAllMappings goes on with the other files, so that     *)
(* after it every file of the directory that passes validation is in the   *)
(* cache.                                                                  *)
(***************************************************************************)
C21_InvalidMappingNeverStored ==
    [][/\ \A i \in DOMAIN deviceMappings' :
             ~FailsValidation(deviceMappings'[i])
       /\ \A d \in DOMAIN translators' :
             ~FailsValidation(translators'[d].mapping)
       /\ \A file \in DOMAIN MappingFiles :
             (/\ lastCall'.op = "loadMapping"
              /\ lastCall'.deviceName = file
              /\ FailsValidation(file)) => lastCall'.threw
       /\ (lastCall'.op = "loadAllMappings" /\ configDir' = configDir) =>
             \A file \in configDir :
                 ~FailsValidation(file) => MapHas(deviceMappings', file)]_vars

\* loadAllMappings ran over a directory that holds the five invalid files:
\* the three valid ones are in the cache, and a later loadMapping of
\* badtarget raised an error.
C21_Witness ==
    /\ lastCall.op = "loadMapping"
    /\ lastCall.deviceName = "badtarget"
    /\ lastCall.threw
    /\ {"bad", "badpriority", "badtarget", "noaction", "noname"}
          \subseteq configDir
    /\ Len(deviceMappings) = 3

(***************************************************************************)
(* C22 (as claimed): for two input events of one device that both          *)
(* translate to an action, route() is called for the earlier event before  *)
(* it is called for the later one, also when the device's translator is    *)
(* not cached and its mapping has to be loaded.                            *)
(***************************************************************************)
C22_RouteOrderPerDevice ==
    \A p, q \in DOMAIN routeCalls :
        (p < q /\ routeCalls[p].deviceId = routeCalls[q].deviceId) =>
            routeCalls[p].event < routeCalls[q].event

(***************************************************************************)
(* C23 (as claimed): whenever the connection has closed or an attempt has  *)
(* failed and disconnect() has not been called, a new connection attempt   *)
(* is eventually made; at most one reconnect timer is pending at any time; *)
(* the attempt counter is 0 after a successful open.                       *)
(***************************************************************************)
C23_ReconnectsEventually ==
    /\ (ws = "closed" /\ ~disconnectCalled)
          ~> (ws = "connecting" \/ disconnectCalled)
    /\ [](Cardinality(timers) <= 1)
    /\ [](ws = "open" => reconnectAttempts = 0)

====
